---------------------------- MODULE Spec2Model ----------------------------
(***************************************************************************)
(* A model of the Gaussian-process surrogate and of the GP blade-stiffened *)
(* shell constitutive object of src/src/constitutive/                      *)
(* TACSGaussianProcessModel.cpp.                                           *)
(*                                                                         *)
(* TacsScalar values are fixed-point integers: the real number r is the    *)
(* integer r * FP, every product and quotient rounds down to a multiple of *)
(* 1/FP.  A value that is not a finite number (the result of a division by *)
(* zero, of a root or logarithm outside its domain, or of arithmetic on    *)
(* such a value) is the one value NaN.                                     *)
(***************************************************************************)
EXTENDS Integers, Sequences, FiniteSets, TLC

\* ------------------------------------------------------------------------
\* Fixed-point arithmetic (the model of TacsScalar and of libm)
\* ------------------------------------------------------------------------

\* the fixed-point unit: the integer that stands for 1.0
FP == 10 * 10 * 10

\* the non-finite TacsScalar
NaN == 0 - 1000000000

Num(n, d) == (n * FP) \div d

Abs(x) == IF x < 0 THEN 0 - x ELSE x

\* A local variable of the source: v is evaluated where the variable is
\* assigned, and Body reads it under the variable's name.
Local(v, Body(_)) == CHOOSE r \in {Body(x) : x \in {v}} : TRUE

Add(a, b) == IF a = NaN \/ b = NaN THEN NaN ELSE a + b

Sub(a, b) == IF a = NaN \/ b = NaN THEN NaN ELSE a - b

Neg(a) == IF a = NaN THEN NaN ELSE 0 - a

Mul(a, b) == IF a = NaN \/ b = NaN THEN NaN ELSE (a * b) \div FP

Div(a, b) == IF a = NaN \/ b = NaN \/ b = 0 THEN NaN ELSE (a * FP) \div b

RECURSIVE ISqrtIter(_, _)
ISqrtIter(n, r) ==
  LET r2 == (r + n \div r) \div 2
  IN IF r2 >= r THEN r ELSE ISqrtIter(n, r2)

\* floor of the square root of the natural number n
ISqrt(n) == IF n < 2 THEN n ELSE ISqrtIter(n, n \div 2 + 1)

\* sqrt(x); pow(x, 0.5)
Sqrt(x) == IF x = NaN \/ x < 0 THEN NaN ELSE ISqrt(x * FP)

\* pow(x, 0.25)
Pow025(x) == Sqrt(Sqrt(x))

\* pow(x, 2.0), pow(x, 3.0), pow(x, 4.0), pow(x, -2.0)
Pow2(x) == Mul(x, x)

Pow3(x) == Mul(Mul(x, x), x)

Pow4(x) == Mul(Mul(x, x), Mul(x, x))

PowM2(x) == Div(FP, Mul(x, x))

RECURSIVE ExpIter(_)
ExpIter(x) ==
  IF x < 0 - 16 * FP THEN 0
  ELSE IF Abs(x) > FP \div 8
       THEN LET h == ExpIter(x \div 2) IN (h * h + FP \div 2) \div FP
       ELSE FP + x + (x * x + FP) \div (2 * FP)
               + (((x * x) \div FP) * x + 3 * FP) \div (6 * FP)

\* exp(x)
Exp(x) == IF x = NaN THEN NaN ELSE ExpIter(x)

\* ln(2)
Ln2 == Num(693147, 1000000)

RECURSIVE LogIter(_)
LogIter(x) ==
  IF x >= 2 * FP THEN Ln2 + LogIter(x \div 2)
  ELSE IF x < FP THEN LogIter(2 * x) - Ln2
  ELSE LET z  == ((x - FP) * FP) \div (x + FP)
           z2 == (z * z) \div FP
           z3 == (z2 * z) \div FP
           z5 == (z3 * z2) \div FP
       IN 2 * (z + z3 \div 3 + z5 \div 5)

\* log(x)
Log(x) == IF x = NaN \/ x <= 0 THEN NaN ELSE LogIter(x)

\* M_PI * M_PI
PiSq == Num(98696, 10000)


\* a TacsScalar array of n entries, indexed from 0 as in the source
Zeros(n) == [ii \in 0 .. n - 1 |-> 0]

Arr4(a, b, c, d) == [ii \in 0 .. 3 |-> CASE ii = 0 -> a [] ii = 1 -> b [] ii = 2 -> c [] OTHER -> d]

\* ------------------------------------------------------------------------
\* TACSGaussianProcessModel
\* ------------------------------------------------------------------------

\* soft_relu, soft_abs and their derivatives are declared in the class header,
\* which is not among the sources: the smooth relu and abs of sharpness rho
soft_relu(x, rho) == Div(Log(FP + Exp(Mul(rho, x))), rho)

soft_relu_sens(x, rho) == Div(Exp(Mul(rho, x)), FP + Exp(Mul(rho, x)))

soft_abs(x, rho) == Div(Log(Exp(Mul(0 - rho, x)) + Exp(Mul(rho, x))), rho)

soft_abs_sens(x, rho) ==
  Div(Exp(Mul(rho, x)) - Exp(Mul(0 - rho, x)), Exp(Mul(0 - rho, x)) + Exp(Mul(rho, x)))

\* the constructor: the object holds its own copies of n_train * n_param
\* training inputs and n_train coefficients
TACSGaussianProcessModel(n_train, n_param, Xtrain, alpha, ks) ==
  [n_train |-> n_train, n_param |-> n_param,
   Xtrain  |-> [ii \in 0 .. n_train * n_param - 1 |-> Xtrain[ii]],
   alpha   |-> [jj \in 0 .. n_train - 1 |-> alpha[jj]],
   ks      |-> ks]

\* loc_Xtrain = &Xtrain[n_param * itrain]
loc_Xtrain(gp, itrain) == [ii \in 0 .. gp.n_param - 1 |-> gp.Xtrain[gp.n_param * itrain + ii]]

\* TACSAxialGaussianProcessModel::kernel and the forward section of kernelSens
KernelStates(ks, Xtest, Xtrain) ==
  LET kernel0    == FP + Mul(Xtest[0], Xtrain[0])
      d1         == Xtest[1] - Xtrain[1]
      d2         == Xtest[2] - Xtrain[2]
      d3         == Xtest[3] - Xtrain[3]
      linearTerm == FP + Mul(Mul(Num(2, 10), Xtest[3]), Xtrain[3])
  IN Local(Num(1, 10) + Mul(soft_relu(0 - Xtest[1], ks), soft_relu(0 - Xtrain[1], ks)),
           LAMBDA kernel1_1 :
     Local(soft_relu(FP - soft_abs(Xtest[1], ks), ks), LAMBDA fact1 :
     Local(soft_relu(FP - soft_abs(Xtrain[1], ks), ks), LAMBDA fact2 :
     Local(Mul(Mul(Mul(Num(2, 100),
                 Exp(Div(Div(Mul(0 - Num(1, 2), Mul(d1, d1)), Num(2, 10)), Num(2, 10)))),
                 fact1), fact2), LAMBDA SE_term1 :
     Local(Mul(Num(1, 10), Exp(Div(Div(Mul(Mul(0 - Num(1, 2), d2), d2), 3 * FP), 3 * FP))),
           LAMBDA SEterm2 :
     Local(Mul(Num(1, 10), Exp(Div(Div(Mul(Mul(0 - Num(1, 2), d3), d3), 3 * FP), 3 * FP))),
           LAMBDA SEterm3 :
       LET kernel1_2 == FP + SE_term1
           kernel2   == FP + Mul(Mul(Num(1, 2), Xtest[2]), Xtrain[2]) + SEterm2
           kernel3   == Mul(linearTerm, linearTerm) + SEterm3
       IN [kernel0 |-> kernel0, kernel1_1 |-> kernel1_1, d1 |-> d1, fact1 |-> fact1,
           SE_term1 |-> SE_term1, kernel1_2 |-> kernel1_2, d2 |-> d2, SEterm2 |-> SEterm2,
           kernel2 |-> kernel2, d3 |-> d3, linearTerm |-> linearTerm, SEterm3 |-> SEterm3,
           kernel3 |-> kernel3,
           output |-> Mul(kernel1_1, kernel0 + kernel2 + kernel3)
                      + Mul(Mul(Mul(kernel1_2, kernel0), kernel2), kernel3)]))))))

\* TACSAxialGaussianProcessModel::kernel
kernel(ks, Xtest, Xtrain) == KernelStates(ks, Xtest, Xtrain).output

\* the jacobian[4] of kernelSens
KernelJacobian(ks, Xtest, Xtrain) ==
  Local(KernelStates(ks, Xtest, Xtrain), LAMBDA f :
    LET kernel0sens == Xtrain[0]
        k1_1sens == Mul(Mul(soft_relu_sens(0 - Xtest[1], ks), 0 - FP), soft_relu(0 - Xtrain[1], ks))
        k1_2sens == Div(Div(Mul(f.SE_term1, 0 - f.d1), Num(2, 10)), Num(2, 10))
                    + Mul(Mul(Div(f.SE_term1, soft_relu(FP - soft_abs(Xtest[1], ks), ks)),
                              soft_relu_sens(FP - soft_abs(Xtest[1], ks), ks)),
                          0 - soft_abs_sens(Xtest[1], ks))
        kernel2sens == Mul(Num(1, 2), Xtrain[2]) + Div(Div(Mul(f.SEterm2, 0 - f.d2), 3 * FP), 3 * FP)
        kernel3sens == Mul(Mul(Mul(Num(2, 10), Xtrain[3]), f.linearTerm), 2 * FP)
                       + Div(Div(Mul(f.SEterm3, 0 - f.d3), 3 * FP), 3 * FP)
    IN Arr4(Mul(kernel0sens, f.kernel1_1 + Mul(Mul(f.kernel1_2, f.kernel2), f.kernel3)),
            Mul(k1_1sens, f.kernel0 + f.kernel2 + f.kernel3)
              + Mul(Mul(Mul(k1_2sens, f.kernel0), f.kernel2), f.kernel3),
            Mul(kernel2sens, f.kernel1_1 + Mul(Mul(f.kernel1_2, f.kernel0), f.kernel3)),
            Mul(kernel3sens, f.kernel1_1 + Mul(Mul(f.kernel1_2, f.kernel0), f.kernel2))))

\* kernelSens adding the jacobian without the upstream scalar ksens
kernelSensUnscaled(ks, ksens, Xtest, Xtrain, Xtestsens) ==
  LET jacobian == KernelJacobian(ks, Xtest, Xtrain)
  IN [ii \in DOMAIN Xtestsens |->
        IF ii \in 0 .. 3 THEN Xtestsens[ii] + jacobian[ii] ELSE Xtestsens[ii]]

\* TACSAxialGaussianProcessModel::kernelSens: Xtestsens[ii] += ksens * jacobian[ii]
kernelSens(ks, ksens, Xtest, Xtrain, Xtestsens) ==
  LET jacobian == KernelJacobian(ks, Xtest, Xtrain)
  IN [ii \in DOMAIN Xtestsens |->
        IF ii \in 0 .. 3 THEN Xtestsens[ii] + Mul(ksens, jacobian[ii]) ELSE Xtestsens[ii]]

RECURSIVE PredictMeanLoop(_, _, _)
PredictMeanLoop(gp, Xtest, itrain) ==
  IF itrain >= gp.n_train THEN 0
  ELSE Mul(kernel(gp.ks, Xtest, loc_Xtrain(gp, itrain)), gp.alpha[itrain])
       + PredictMeanLoop(gp, Xtest, itrain + 1)

\* TACSGaussianProcessModel::predictMeanTestData
predictMeanTestData(gp, Xtest) == PredictMeanLoop(gp, Xtest, 0)

RECURSIVE PredictMeanSensLoop(_, _, _, _, _)
PredictMeanSensLoop(gp, Ysens, Xtest, Xtestsens, itrain) ==
  IF itrain >= gp.n_train THEN Xtestsens
  ELSE PredictMeanSensLoop(gp, Ysens, Xtest,
         kernelSens(gp.ks, Mul(Ysens, gp.alpha[itrain]), Xtest, loc_Xtrain(gp, itrain), Xtestsens),
         itrain + 1)

\* memset(Xtestsens, 0, n_param * sizeof(TacsScalar))
MemsetXtestsens(gp, Xtestsens) ==
  [ii \in DOMAIN Xtestsens |-> IF ii < gp.n_param THEN 0 ELSE Xtestsens[ii]]

\* predictMeanTestDataSens with the weight alpha[itrain] of each training point
\* left out of the back-propagated value
sensWithoutAlpha(gp, Ysens, Xtest, Xtestsens) ==
  [Ytest     |-> PredictMeanLoop(gp, Xtest, 0),
   Xtestsens |-> PredictMeanSensLoop([gp EXCEPT !.alpha = [jj \in DOMAIN gp.alpha |-> FP]],
                                     Ysens, Xtest, MemsetXtestsens(gp, Xtestsens), 0)]

\* TACSGaussianProcessModel::predictMeanTestDataSens: the value returned and
\* the content of Xtestsens on return
predictMeanTestDataSens(gp, Ysens, Xtest, Xtestsens) ==
  [Ytest     |-> PredictMeanLoop(gp, Xtest, 0),
   Xtestsens |-> PredictMeanSensLoop(gp, Ysens, Xtest, MemsetXtestsens(gp, Xtestsens), 0)]


\* ------------------------------------------------------------------------
\* The entries of its buffers surrogate inference reads or writes.  A buffer
\* is given by its number of entries (size) and the set of the indices
\* touched.
\* ------------------------------------------------------------------------

\* kernel reads Xtest[0 .. 3] and Xtrain[0 .. 3]; kernelSens does so too,
\* fills jacobian[0 .. 3] and adds to Xtestsens[ii] for ii < 4
KernelIndices == 0 .. 3

\* the entries of this->Xtrain read through loc_Xtrain = &Xtrain[n_param *
\* itrain] over the loop of predictMeanTestData and predictMeanTestDataSens
XtrainIndices(n_train, n_param) ==
  {n_param * itrain + k : itrain \in 0 .. n_train - 1, k \in KernelIndices}

\* predictMeanTestData (sens = FALSE) and predictMeanTestDataSens (sens =
\* TRUE) of a model of n_train points of n_param parameters, on buffers Xtest
\* and Xtestsens of n_param entries
predictMeanAccess(n_train, n_param, sens) ==
  [Xtest     |-> [size |-> n_param, touched |-> KernelIndices],
   Xtrain    |-> [size |-> n_train * n_param, touched |-> XtrainIndices(n_train, n_param)],
   alpha     |-> [size |-> n_train, touched |-> 0 .. n_train - 1],
   Xtestsens |-> [size |-> n_param,
                  touched |-> IF sens THEN (0 .. n_param - 1) \cup KernelIndices ELSE {}],
   jacobian  |-> [size |-> 4, touched |-> IF sens THEN KernelIndices ELSE {}]]

\* the surrogate branch of a critical-load routine (sens = FALSE) and of its
\* sensitivity routine (sens = TRUE): Xtest = new TacsScalar[n_param],
\* Xtest[0 .. 3] = .., the prediction, and in the sensitivity routine
\* Xtestsens = new TacsScalar[n_param] and the reads of Xtestsens[0 .. 3]
criticalLoadAccess(n_train, n_param, sens) ==
  Local(predictMeanAccess(n_train, n_param, sens), LAMBDA p :
    [p EXCEPT !.Xtest.touched = @ \cup (0 .. 3),
              !.Xtestsens.touched = IF sens THEN @ \cup (0 .. 3) ELSE @])

\* an index outside its buffer has been touched
Overrun(access) ==
  \E buf \in DOMAIN access : ~(access[buf].touched \subseteq 0 .. access[buf].size - 1)

\* what a call can come to: with every access inside its buffer it returns;
\* an access outside is undefined, the call may return or fault
Outcomes(access) == IF Overrun(access) THEN {"returns", "faults"} ELSE {"returns"}

\* a constructor that keeps the caller's pointers instead of copying the
\* arrays; the ownership of the data (C12) is tested against it
keepCallersArrays(n_train, n_param, Xtrain, alpha, ks, mem) ==
  [this |-> [n_train |-> n_train, n_param |-> n_param, ks |-> ks,
             Xtrain |-> Xtrain, alpha |-> alpha],
   mem  |-> mem]


\* The constructor with the arrays behind its pointer arguments: mem is the
\* memory, an array at each address; Xtrain and alpha are the addresses of the
\* caller's arrays.  The object holds the addresses of two arrays of its own,
\* filled entry by entry from the caller's.
newTACSGaussianProcessModel(n_train, n_param, Xtrain, alpha, ks, mem) ==
  LET this == TACSGaussianProcessModel(n_train, n_param, mem[Xtrain], mem[alpha], ks)
  IN [this |-> [n_train |-> n_train, n_param |-> n_param, ks |-> ks,
                Xtrain |-> "this->Xtrain", alpha |-> "this->alpha"],
      mem  |-> [a \in DOMAIN mem \cup {"this->Xtrain", "this->alpha"} |->
                  CASE a = "this->Xtrain" -> this.Xtrain
                    [] a = "this->alpha"  -> this.alpha
                    [] OTHER              -> mem[a]]]

\* the object as its member functions read it: this->Xtrain[..] and
\* this->alpha[..] are the arrays at the addresses it holds
Members(this, mem) ==
  [n_train |-> this.n_train, n_param |-> this.n_param, ks |-> this.ks,
   Xtrain |-> mem[this.Xtrain], alpha |-> mem[this.alpha]]


\* ------------------------------------------------------------------------
\* Collaborators of the base class TACSBladeStiffenedShellConstitutive, whose
\* code is not among the sources.  o is the constitutive object.
\* ------------------------------------------------------------------------

\* the absent trained model (nullptr)
NULL == [n_train |-> 0]

\* ksAggregation(f, n, ksWeight): max + log(sum exp(ksWeight (f_i - max))) / ksWeight
SeqMax(f) == CHOOSE v \in {f[ii] : ii \in DOMAIN f} : \A jj \in DOMAIN f : f[jj] <= v

RECURSIVE SumTo(_, _)
SumTo(f, n) == IF n < 0 THEN 0 ELSE f[n] + SumTo(f, n - 1)

\* the sum of the entries 0 .. n-1 of f
Sum(f, n) == SumTo(f, n - 1)

KsExps(f, n, ksWeight) == [ii \in 0 .. n - 1 |-> Exp(Mul(ksWeight, f[ii] - SeqMax(f)))]

\* an aggregate that takes the smoothing term off the maximum
ksBelowMax(f, n, ksWeight) ==
  Local(KsExps(f, n, ksWeight), LAMBDA e : SeqMax(f) - Div(Log(Sum(e, n)), ksWeight))

ksAggregation(f, n, ksWeight) ==
  Local(KsExps(f, n, ksWeight), LAMBDA e : SeqMax(f) + Div(Log(Sum(e, n)), ksWeight))

\* ksAggregationSens: the weights dKS/df_i = exp(ksWeight (f_i - max)) / sum
ksAggregationSens(f, n, ksWeight) ==
  Local(KsExps(f, n, ksWeight), LAMBDA e : [ii \in 0 .. n - 1 |-> Div(e[ii], Sum(e, n))])

\* computeEffectiveModulii: the effective moduli E1p of the panel and E1s of
\* the stiffener
E1p(o) == o.E1p

E1s(o) == o.E1s

\* computeStiffenerArea
computeStiffenerArea(o) == Mul(FP + o.flangeFraction, Mul(o.stiffenerHeight, o.stiffenerThick))

\* computeStiffenerIzz and computeStiffenerIzzSens: the bending inertia of the
\* stiffener and its derivatives with respect to its thickness and height
computeStiffenerIzz(o) == Div(Mul(o.stiffenerThick, Pow3(o.stiffenerHeight)), 12 * FP)

dI_dsthick(o) == Div(Pow3(o.stiffenerHeight), 12 * FP)

dI_dsheight(o) == Div(Mul(o.stiffenerThick, Pow2(o.stiffenerHeight)), 4 * FP)

\* ------------------------------------------------------------------------
\* TACSGPBladeStiffenedShellConstitutive: the nondimensional parameters.
\* A sensitivity routine takes the record acc of the slots its pointer
\* arguments name and gives the record of their values on return.
\* ------------------------------------------------------------------------

computeAffineAspectRatio(D11, D22, a, b) == Mul(Div(a, b), Pow025(Div(D22, D11)))

computeAffineAspectRatioSens(rho0sens, D11, D22, a, b, acc) ==
  Local(computeAffineAspectRatio(D11, D22, a, b), LAMBDA rho_0 :
    [asens   |-> Div(Mul(rho0sens, rho_0), a),
     bsens   |-> Div(Mul(Mul(rho0sens, 0 - FP), rho_0), b),
     D11sens |-> Div(Mul(Mul(rho0sens, 0 - Num(1, 4)), rho_0), D11),
     D22sens |-> Div(Mul(Mul(rho0sens, Num(1, 4)), rho_0), D22)])

computeGeneralizedRigidity(D11, D22, D12, D66) == Div(D12 + 2 * D66, Sqrt(Mul(D11, D22)))

\* computeGeneralizedRigiditySens with the factor 2.0 of D66 left out
rigiditySensSingleD66(xisens, D11, D22, D12, D66, acc) ==
  Local(Sqrt(Mul(D11, D22)), LAMBDA denominator :
  Local(computeGeneralizedRigidity(D11, D22, D12, D66), LAMBDA xi :
    [D12sens |-> acc.D12sens + Div(Mul(xisens, FP), denominator),
     D66sens |-> acc.D66sens + Div(Mul(xisens, FP), denominator),
     D11sens |-> acc.D11sens + Div(Mul(Mul(xisens, 0 - Num(1, 2)), xi), D11),
     D22sens |-> acc.D22sens + Div(Mul(Mul(xisens, 0 - Num(1, 2)), xi), D22)]))

computeGeneralizedRigiditySens(xisens, D11, D22, D12, D66, acc) ==
  Local(Sqrt(Mul(D11, D22)), LAMBDA denominator :
  Local(computeGeneralizedRigidity(D11, D22, D12, D66), LAMBDA xi :
    [D12sens |-> acc.D12sens + Div(Mul(xisens, FP), denominator),
     D66sens |-> acc.D66sens + Div(Mul(xisens, 2 * FP), denominator),
     D11sens |-> acc.D11sens + Div(Mul(Mul(xisens, 0 - Num(1, 2)), xi), D11),
     D22sens |-> acc.D22sens + Div(Mul(Mul(xisens, 0 - Num(1, 2)), xi), D22)]))

computeGeneralizedPoissonsRatio(D12, D66) == Div(D12 + 2 * D66, D12)

computeGeneralizedPoissonsRatioSens(epssens, D12, D66, acc) ==
  [D12sens |-> acc.D12sens + Div(Div(Mul(Mul(epssens, 0 - 2 * FP), D66), D12), D12),
   D66sens |-> acc.D66sens + Div(Mul(epssens, 2 * FP), D12)]

computeStiffenerAreaRatio(o) ==
  Div(Mul(E1s(o), computeStiffenerArea(o)), Mul(Mul(E1p(o), o.stiffenerPitch), o.panelThick))

computeStiffenerAreaRatioSens(o, deltasens, acc) ==
  Local(computeStiffenerAreaRatio(o), LAMBDA delta :
    [sthickSens  |-> acc.sthickSens + Div(Mul(deltasens, delta), o.stiffenerThick),
     sheightSens |-> acc.sheightSens + Div(Mul(deltasens, delta), o.stiffenerHeight),
     spitchSens  |-> acc.spitchSens + Div(Mul(Mul(deltasens, 0 - FP), delta), o.stiffenerPitch),
     pthickSens  |-> acc.pthickSens + Div(Mul(Mul(deltasens, 0 - FP), delta), o.panelThick)])

computeStiffenerStiffnessRatio(o, D11) ==
  Div(Div(Mul(E1s(o), computeStiffenerIzz(o)), D11), o.stiffenerThick)

computeStiffenerStiffnessRatioSens(o, gammasens, D11, acc) ==
  Local(computeStiffenerStiffnessRatio(o, D11), LAMBDA gamma :
  Local(computeStiffenerIzz(o), LAMBDA Is :
    [D11sens     |-> acc.D11sens + Div(Mul(Mul(gammasens, 0 - FP), gamma), D11),
     sthickSens  |-> acc.sthickSens + Mul(Div(Mul(gammasens, gamma), Is), dI_dsthick(o)),
     sheightSens |-> acc.sheightSens + Mul(Div(Mul(gammasens, gamma), Is), dI_dsheight(o)),
     spitchSens  |-> acc.spitchSens + Div(Mul(Mul(gammasens, 0 - FP), gamma), o.stiffenerPitch)]))

computeTransverseShearParameter(A66, A11, b, h) == Mul(Mul(Div(A66, A11), Div(b, h)), Div(b, h))

computeTransverseShearParameterSens(zetasens, A66, A11, b, h, acc) ==
  Local(Mul(Mul(Div(A66, A11), Div(b, h)), Div(b, h)), LAMBDA zeta :
  Local(Mul(zetasens, zeta), LAMBDA dzeta :
    [A66sens |-> acc.A66sens + Div(dzeta, A66),
     A11sens |-> acc.A11sens + Div(Mul(dzeta, 0 - FP), A11),
     bsens   |-> acc.bsens + Div(Mul(dzeta, 2 * FP), b),
     hsens   |-> acc.hsens + Div(Mul(dzeta, 0 - 2 * FP), h)]))


\* ------------------------------------------------------------------------
\* The coupled shear-mode equations: Newton's method on lam2bar^2.
\* ------------------------------------------------------------------------

\* the residual tolerance 1e-10 of the loop, at the resolution of the
\* fixed-point scalars
NewtonTol == 2

\* the iterations the model follows before it stops following the loop
MaxNewtonIters == 40

lam2Constraint(lam2sq, xi, gamma) ==
  Local(Pow025(Add(Add(Add(FP, Mul(Mul(2 * FP, lam2sq), xi)), Mul(lam2sq, lam2sq)), gamma)),
        LAMBDA lam1bar :
  Local(Mul(lam1bar, lam1bar), LAMBDA lam1sq :
  Local(Mul(lam1sq, lam1sq), LAMBDA lam14 :
    Sub(Add(Add(lam2sq, lam1sq), Div(xi, 3 * FP)),
        Sqrt(Add(Add(Div(3 * FP + xi, 9 * FP), Mul(Mul(Num(4, 3), lam1sq), xi)),
                 Mul(Num(4, 3), lam14)))))))

lam2ConstraintDeriv(lam2sq, xi, gamma) ==
  Local(Add(Add(Add(FP, Mul(Mul(2 * FP, lam2sq), xi)), Mul(lam2sq, lam2sq)), gamma), LAMBDA temp :
  Local(Pow025(temp), LAMBDA lam1 :
  Local(Mul(lam1, lam1), LAMBDA lam1sq :
  Local(Mul(lam1sq, lam1sq), LAMBDA lam14 :
    LET term2  == Sqrt(Add(Add(Div(3 * FP + xi, 9 * FP), Mul(Mul(Num(4, 3), lam1sq), xi)),
                           Mul(Num(4, 3), lam14)))
        dlam1_dlam2sq == Mul(Div(Mul(lam1, Num(1, 4)), temp), Add(2 * FP, Mul(2 * FP, lam2sq)))
        dfdlam1 == Sub(Mul(2 * FP, lam1),
                       Mul(Mul(Div(Num(1, 2), term2), Num(4, 3)),
                           Add(Mul(Mul(2 * FP, lam1), xi), Mul(Mul(4 * FP, lam1), lam1sq))))
    IN Add(FP, Mul(dfdlam1, dlam1_dlam2sq))))))

\* The while loop of nondimShearParams from the iterate lam2bar_sq, k
\* iterations in.  The loop is left when the residual is within the tolerance
\* and also when it is NaN, the comparison abs(NaN) > 1e-10 being false.
RECURSIVE NewtonLoop(_, _, _, _)
NewtonLoop(lam2bar_sq, xi, gamma, k) ==
  Local(lam2Constraint(lam2bar_sq, xi, gamma), LAMBDA g :
    IF g = NaN THEN [lam2bar_sq |-> lam2bar_sq, residual |-> g, iters |-> k, left |-> TRUE]
    ELSE IF ~(Abs(g) > NewtonTol)
         THEN [lam2bar_sq |-> lam2bar_sq, residual |-> g, iters |-> k, left |-> TRUE]
         ELSE IF k >= MaxNewtonIters \/ lam2bar_sq = NaN
              THEN [lam2bar_sq |-> lam2bar_sq, residual |-> g, iters |-> k, left |-> FALSE]
              ELSE NewtonLoop(Sub(lam2bar_sq, Div(g, lam2ConstraintDeriv(lam2bar_sq, xi, gamma))),
                              xi, gamma, k + 1))

\* nondimShearParams: lam1bar and lam2bar as the function leaves them, with
\* the residual and the iteration count at the exit of the loop.  The
\* function is void, throws nothing and prints nothing: however the loop is
\* left, no failure is reported (failure).
nondimShearParams(xi, gamma) ==
  Local(NewtonLoop(0, xi, gamma, 0), LAMBDA nl :
    LET lam2bar_sq == nl.lam2bar_sq
    IN [lam1bar  |-> Pow025(Add(Add(Add(FP, Mul(Mul(2 * FP, lam2bar_sq), xi)),
                                    Mul(lam2bar_sq, lam2bar_sq)), gamma)),
        lam2bar  |-> Sqrt(lam2bar_sq),
        residual |-> nl.residual,
        iters    |-> nl.iters,
        left     |-> nl.left,
        failure  |-> FALSE])

nondimShearParamsSens(xi, gamma) ==
  Local(nondimShearParams(xi, gamma), LAMBDA nsp :
    LET lam1 == nsp.lam1bar
        lam2 == nsp.lam2bar
        dexp1lam2 == Add(Mul(Mul(4 * FP, lam2), xi), Mul(Mul(Mul(4 * FP, lam2), lam2), lam2))
        dexp1xi == Mul(Mul(2 * FP, lam2), lam2)
        dexp1gamma == FP
        dexp2lam1 == Mul(Num(4, 3), Add(Mul(Mul(2 * FP, lam1), xi),
                                         Mul(Mul(Mul(4 * FP, lam1), lam1), lam1)))
        dexp2xi == Num(1, 9)
        dexp2gamma == 0
        A1 == FP
        D1 == Mul(2 * FP, lam2)
    IN Local(Add(Add(Add(FP, Mul(Mul(Mul(2 * FP, lam2), lam2), xi)), Pow4(lam2)), gamma),
             LAMBDA exp1 :
       Local(Add(Div(3 * FP + xi, 9 * FP),
                 Mul(Num(4, 3), Add(Mul(Mul(lam1, lam1), xi), Pow4(lam1)))), LAMBDA exp2 :
       Local(Div(FP, Sqrt(exp2)), LAMBDA powm05 :
       Local(Mul(Div(Mul(0 - Num(1, 4), lam1), exp1), dexp1lam2), LAMBDA B1 :
       Local(Mul(Div(Mul(Num(1, 4), lam1), exp1), dexp1xi), LAMBDA E1 :
       Local(Sub(Mul(2 * FP, lam1), Mul(Mul(Num(1, 2), powm05), dexp2lam1)), LAMBDA C1 :
       Local(Add(0 - Num(1, 3), Mul(Mul(Num(1, 2), powm05), dexp2xi)), LAMBDA F1 :
       Local(Mul(Div(Mul(Num(1, 4), lam1), exp1), dexp1gamma), LAMBDA E2 :
       Local(Add(0 - Num(1, 3), Mul(Mul(Num(1, 2), powm05), dexp2gamma)), LAMBDA F2 :
       Local(Sub(Mul(A1, D1), Mul(B1, C1)), LAMBDA det :
         [lam1bar  |-> lam1,
          lam2bar  |-> lam2,
          dl1xi    |-> Div(Sub(Mul(D1, E1), Mul(B1, F1)), det),
          dl2xi    |-> Div(Sub(Mul(A1, F1), Mul(C1, E1)), det),
          dl1gamma |-> Div(Sub(Mul(D1, E2), Mul(B1, F2)), det),
          dl2gamma |-> Div(Sub(Mul(A1, F2), Mul(C1, E2)), det),
          residual |-> nsp.residual,
          iters    |-> nsp.iters,
          left     |-> nsp.left])))))))))))


\* ------------------------------------------------------------------------
\* The critical loads.  Each routine gives the load it returns (ret), the
\* branch it ran (path: "GP" for the surrogate, "CF" for the closed form)
\* and the trained models it dereferenced (deref); a sensitivity routine
\* also gives the values of its output slots (sens).  heap is the content of
\* the Xtestsens buffer as operator new hands it over.
\* ------------------------------------------------------------------------

\* the buckling modes of the closed-form axial solutions
NUM_CF_MODES == 3

getAxialGP(o) == o.axialGP

\* an accessor that hands out the axial model where the shear model is asked
\* for; the selection of the surrogate path (C8) is tested against it
shearFromAxialGP(o) == o.axialGP

getShearGP(o) == o.shearGP

getCripplingGP(o) == o.cripplingGP

\* neg_N11crits of the closed-form axial solutions, for the modes m1 = 1 ..
\* NUM_CF_MODES at index m1 - 1; gamma is 0 for the local load
AxialModeFactor(m1, rho_0, xi, gamma) ==
  Mul(FP + gamma, Pow2(Div(m1 * FP, rho_0))) + PowM2(Div(m1 * FP, rho_0)) + Mul(2 * FP, xi)

computeCriticalGlobalAxialLoad(o, D11, D22, b, delta, rho_0, xi, gamma, zeta) ==
  Local(Div(Div(Div(Mul(PiSq, Sqrt(Mul(D11, D22))), b), b), FP + delta), LAMBDA dim_factor :
    IF getAxialGP(o) # NULL
    THEN LET Xtest == Arr4(Log(xi), Log(rho_0), Log(FP + gamma), Log(zeta))
         IN [ret   |-> Mul(dim_factor, Exp(predictMeanTestData(getAxialGP(o), Xtest))),
             path  |-> "GP",
             deref |-> {"axialGP"}]
    ELSE LET neg_N11crits == [ii \in 0 .. NUM_CF_MODES - 1 |->
                                Mul(Mul(0 - FP, dim_factor), AxialModeFactor(ii + 1, rho_0, xi, gamma))]
         IN [ret   |-> Mul(0 - FP, ksAggregation(neg_N11crits, NUM_CF_MODES, o.ksWeight)),
             path  |-> "CF",
             deref |-> {}])

computeCriticalGlobalAxialLoadSens(o, N1sens, D11, D22, b, delta, rho_0, xi, gamma, zeta, acc, heap) ==
  Local(Div(Div(Div(Mul(PiSq, Sqrt(Mul(D11, D22))), b), b), FP + delta), LAMBDA dim_factor :
    IF getAxialGP(o) # NULL
    THEN Local(Arr4(Log(xi), Log(rho_0), Log(FP + gamma), Log(zeta)), LAMBDA Xtest :
         Local(predictMeanTestData(getAxialGP(o), Xtest), LAMBDA arg :
         Local(Mul(dim_factor, Exp(arg)), LAMBDA output :
         Local(Mul(N1sens, output), LAMBDA Ysens :
         Local(predictMeanTestDataSens(getAxialGP(o), Ysens, Xtest, heap).Xtestsens,
               LAMBDA Xtestsens :
           [ret   |-> output,
            path  |-> "GP",
            deref |-> {"axialGP"},
            sens  |-> [xisens    |-> acc.xisens + Div(Xtestsens[0], xi),
                       rho_0sens |-> acc.rho_0sens + Div(Xtestsens[1], rho_0),
                       gammasens |-> acc.gammasens + Div(Xtestsens[2], FP + gamma),
                       zetasens  |-> acc.zetasens + Div(Xtestsens[3], zeta),
                       D11sens   |-> acc.D11sens + Div(Mul(Ysens, Num(1, 2)), D11),
                       D22sens   |-> acc.D22sens + Div(Mul(Ysens, Num(1, 2)), D22),
                       bsens     |-> acc.bsens + Div(Mul(Ysens, 0 - 2 * FP), b),
                       deltasens |-> acc.deltasens + Div(Mul(Ysens, 0 - FP), FP + delta)]])))))
    ELSE Local([ii \in 0 .. NUM_CF_MODES - 1 |->
                  Mul(Mul(0 - FP, dim_factor), AxialModeFactor(ii + 1, rho_0, xi, gamma))],
               LAMBDA neg_N11crits :
         Local(ksAggregationSens(neg_N11crits, NUM_CF_MODES, o.ksWeight), LAMBDA dKS :
         Local([ii \in 0 .. NUM_CF_MODES - 1 |-> Mul(dKS[ii], N1sens)], LAMBDA neg_N11crits_sens :
           LET mr(ii) == Div((ii + 1) * FP, rho_0)
               Over(term(_)) == Sum([ii \in 0 .. NUM_CF_MODES - 1 |-> term(ii)], NUM_CF_MODES)
               tD11(ii) == Mul(neg_N11crits_sens[ii], Div(Mul(Num(1, 2), neg_N11crits[ii]), D11))
               tD22(ii) == Mul(neg_N11crits_sens[ii], Div(Mul(Num(1, 2), neg_N11crits[ii]), D22))
               tb(ii) == Mul(neg_N11crits_sens[ii], Div(Mul(0 - 2 * FP, neg_N11crits[ii]), b))
               tdelta(ii) == Mul(neg_N11crits_sens[ii], Div(Mul(0 - FP, neg_N11crits[ii]), FP + delta))
               trho(ii) == Mul(Mul(neg_N11crits_sens[ii], 0 - dim_factor),
                               Div(Mul(Mul(FP + gamma, 0 - 2 * FP), Pow2(mr(ii))), rho_0)
                                 + Div(Mul(PowM2(mr(ii)), 2 * FP), rho_0))
               txi(ii) == Mul(Mul(neg_N11crits_sens[ii], 0 - dim_factor), 2 * FP)
               tgamma(ii) == Mul(Mul(neg_N11crits_sens[ii], 0 - dim_factor), Pow2(mr(ii)))
           IN [ret   |-> Mul(0 - FP, ksAggregation(neg_N11crits, NUM_CF_MODES, o.ksWeight)),
               path  |-> "CF",
               deref |-> {},
               sens  |-> [xisens    |-> acc.xisens + Over(txi),
                          rho_0sens |-> acc.rho_0sens + Over(trho),
                          gammasens |-> acc.gammasens + Over(tgamma),
                          zetasens  |-> acc.zetasens,
                          D11sens   |-> acc.D11sens + Over(tD11),
                          D22sens   |-> acc.D22sens + Over(tD22),
                          bsens     |-> acc.bsens + Over(tb),
                          deltasens |-> acc.deltasens + Over(tdelta)]]))))

computeCriticalLocalAxialLoad(o, D11, D22, rho_0, xi, zeta) ==
  Local(Div(Div(Mul(PiSq, Sqrt(Mul(D11, D22))), o.stiffenerPitch), o.stiffenerPitch),
        LAMBDA dim_factor :
    IF getAxialGP(o) # NULL
    THEN LET Xtest == Arr4(Log(xi), Log(rho_0), 0, Log(zeta))
         IN [ret   |-> Mul(dim_factor, Exp(predictMeanTestData(getAxialGP(o), Xtest))),
             path  |-> "GP",
             deref |-> {"axialGP"}]
    ELSE LET neg_N11crits == [ii \in 0 .. NUM_CF_MODES - 1 |->
                                Mul(Mul(0 - FP, dim_factor), AxialModeFactor(ii + 1, rho_0, xi, 0))]
         IN [ret   |-> Mul(0 - FP, ksAggregation(neg_N11crits, NUM_CF_MODES, o.ksWeight)),
             path  |-> "CF",
             deref |-> {}])

computeCriticalLocalAxialLoadSens(o, N1sens, D11, D22, rho_0, xi, zeta, acc, heap) ==
  Local(Div(Div(Mul(PiSq, Sqrt(Mul(D11, D22))), o.stiffenerPitch), o.stiffenerPitch),
        LAMBDA dim_factor :
    IF getAxialGP(o) # NULL
    THEN Local(Arr4(Log(xi), Log(rho_0), 0, Log(zeta)), LAMBDA Xtest :
         Local(predictMeanTestData(getAxialGP(o), Xtest), LAMBDA arg :
         Local(Mul(dim_factor, Exp(arg)), LAMBDA output :
         Local(Mul(N1sens, output), LAMBDA Ysens :
         Local(predictMeanTestDataSens(getAxialGP(o), Ysens, Xtest, heap).Xtestsens,
               LAMBDA Xtestsens :
           [ret   |-> output,
            path  |-> "GP",
            deref |-> {"axialGP"},
            sens  |-> [xisens     |-> acc.xisens + Div(Xtestsens[0], xi),
                       rho_0sens  |-> acc.rho_0sens + Div(Xtestsens[1], rho_0),
                       zetasens   |-> acc.zetasens + Div(Xtestsens[3], zeta),
                       D11sens    |-> acc.D11sens + Div(Mul(Ysens, Num(1, 2)), D11),
                       D22sens    |-> acc.D22sens + Div(Mul(Ysens, Num(1, 2)), D22),
                       spitchsens |-> acc.spitchsens + Div(Mul(Ysens, 0 - 2 * FP), o.stiffenerPitch)]])))))
    ELSE Local([ii \in 0 .. NUM_CF_MODES - 1 |->
                  Mul(Mul(0 - FP, dim_factor), AxialModeFactor(ii + 1, rho_0, xi, 0))],
               LAMBDA neg_N11crits :
         Local(ksAggregationSens(neg_N11crits, NUM_CF_MODES, o.ksWeight), LAMBDA dKS :
         Local([ii \in 0 .. NUM_CF_MODES - 1 |-> Mul(dKS[ii], N1sens)], LAMBDA neg_N11crits_sens :
           LET mr(ii) == Div((ii + 1) * FP, rho_0)
               Over(term(_)) == Sum([ii \in 0 .. NUM_CF_MODES - 1 |-> term(ii)], NUM_CF_MODES)
               tD11(ii) == Mul(neg_N11crits_sens[ii], Div(Mul(Num(1, 2), neg_N11crits[ii]), D11))
               tD22(ii) == Mul(neg_N11crits_sens[ii], Div(Mul(Num(1, 2), neg_N11crits[ii]), D22))
               trho(ii) == Mul(Mul(neg_N11crits_sens[ii], 0 - dim_factor),
                               Div(Mul(0 - 2 * FP, Pow2(mr(ii))), rho_0)
                                 + Div(Mul(PowM2(mr(ii)), 2 * FP), rho_0))
               txi(ii) == Mul(Mul(neg_N11crits_sens[ii], 0 - dim_factor), 2 * FP)
               tspitch(ii) == Mul(neg_N11crits_sens[ii],
                                  Div(Mul(0 - 2 * FP, neg_N11crits[ii]), o.stiffenerPitch))
           IN [ret   |-> Mul(0 - FP, ksAggregation(neg_N11crits, NUM_CF_MODES, o.ksWeight)),
               path  |-> "CF",
               deref |-> {},
               \* *D11sens = *D22sens = *spitchsens = *rho_0sens = *xisens = 0.0
               \* precedes the loop over the modes
               sens  |-> [xisens     |-> 0 + Over(txi),
                          rho_0sens  |-> 0 + Over(trho),
                          zetasens   |-> acc.zetasens,
                          D11sens    |-> 0 + Over(tD11),
                          D22sens    |-> 0 + Over(tD22),
                          spitchsens |-> 0 + Over(tspitch)]]))))


\* the nondimensional factor of the closed-form shear solution and its
\* numerator and denominator
ShearNum(lam1, lam2, xi) ==
  Add(Add(Add(Add(FP, Pow4(lam1)), Mul(6 * FP, Pow2(Mul(lam1, lam2)))), Pow4(lam2)), Mul(2 * FP, xi))

ShearDen(lam1, lam2) == Mul(Mul(Mul(2 * FP, lam1), lam1), lam2)

\* the shear sensitivities shared by the global and the local closed form
ShearCFSens(N12sens, dim_factor, xi, ns) ==
  LET lam1 == ns.lam1bar
      lam2 == ns.lam2bar
  IN Local(ShearNum(lam1, lam2, xi), LAMBDA num :
     Local(ShearDen(lam1, lam2), LAMBDA den :
     Local(Sub(Div(Add(Mul(4 * FP, Pow3(lam1)), Mul(Mul(Mul(12 * FP, lam1), lam2), lam2)), den),
               Div(Div(Mul(Mul(Mul(num, 4 * FP), lam1), lam2), den), den)), LAMBDA dNDlam1 :
     Local(Sub(Div(Add(Mul(4 * FP, Pow3(lam2)), Mul(Mul(Mul(12 * FP, lam2), lam1), lam1)), den),
               Div(Div(Mul(Mul(Mul(num, 2 * FP), lam1), lam1), den), den)), LAMBDA dNDlam2 :
       [N12crit |-> Mul(dim_factor, Div(num, den)),
        xi      |-> Mul(Mul(N12sens, dim_factor),
                        Add(Add(Mul(dNDlam1, ns.dl1xi), Mul(dNDlam2, ns.dl2xi)), Div(2 * FP, den))),
        gamma   |-> Mul(Mul(N12sens, dim_factor),
                        Add(Mul(dNDlam1, ns.dl1gamma), Mul(dNDlam2, ns.dl2gamma)))]))))

computeCriticalGlobalShearLoad(o, D11, D22, b, xi, rho_0, gamma, zeta) ==
  Local(Div(Div(Mul(PiSq, Pow025(Mul(Mul(Mul(D11, D22), D22), D22))), b), b), LAMBDA dim_factor :
    IF getShearGP(o) # NULL
    THEN LET Xtest == Arr4(Log(xi), Log(rho_0), Log(FP + gamma), Log(zeta))
         IN [ret   |-> Mul(dim_factor, Exp(predictMeanTestData(getShearGP(o), Xtest))),
             path  |-> "GP",
             deref |-> {"shearGP"}]
    ELSE Local(nondimShearParams(xi, gamma), LAMBDA nsp :
           [ret   |-> Mul(dim_factor, Div(ShearNum(nsp.lam1bar, nsp.lam2bar, xi),
                                          ShearDen(nsp.lam1bar, nsp.lam2bar))),
            path  |-> "CF",
            deref |-> {}]))

computeCriticalGlobalShearLoadSens(o, N12sens, D11, D22, b, xi, rho_0, gamma, zeta, acc, heap) ==
  Local(Div(Div(Mul(PiSq, Pow025(Mul(Mul(Mul(D11, D22), D22), D22))), b), b), LAMBDA dim_factor :
    IF getShearGP(o) # NULL
    THEN Local(Arr4(Log(xi), Log(rho_0), Log(FP + gamma), Log(zeta)), LAMBDA Xtest :
         Local(predictMeanTestData(getShearGP(o), Xtest), LAMBDA arg :
         Local(Mul(dim_factor, Exp(arg)), LAMBDA output :
         Local(Mul(N12sens, output), LAMBDA Ysens :
         Local(predictMeanTestDataSens(getShearGP(o), Ysens, Xtest, heap).Xtestsens,
               LAMBDA Xtestsens :
           [ret   |-> output,
            path  |-> "GP",
            deref |-> {"shearGP"},
            sens  |-> [xisens    |-> acc.xisens + Div(Xtestsens[0], xi),
                       rho_0sens |-> acc.rho_0sens + Div(Xtestsens[1], rho_0),
                       gammasens |-> acc.gammasens + Div(Xtestsens[2], FP + gamma),
                       zetasens  |-> acc.zetasens + Div(Xtestsens[3], zeta),
                       D11sens   |-> acc.D11sens + Div(Mul(Ysens, Num(1, 4)), D11),
                       D22sens   |-> acc.D22sens + Div(Mul(Ysens, Num(3, 4)), D22),
                       bsens     |-> acc.bsens + Div(Mul(Ysens, 0 - 2 * FP), b)]])))))
    ELSE Local(nondimShearParamsSens(xi, gamma), LAMBDA ns :
         Local(ShearCFSens(N12sens, dim_factor, xi, ns), LAMBDA cf :
           [ret   |-> cf.N12crit,
            path  |-> "CF",
            deref |-> {},
            sens  |-> [xisens    |-> Add(acc.xisens, cf.xi),
                       rho_0sens |-> acc.rho_0sens,
                       gammasens |-> Add(acc.gammasens, cf.gamma),
                       zetasens  |-> acc.zetasens,
                       D11sens   |-> Add(acc.D11sens, Div(Mul(Mul(N12sens, cf.N12crit), Num(1, 4)), D11)),
                       D22sens   |-> Add(acc.D22sens, Div(Mul(Mul(N12sens, cf.N12crit), Num(3, 4)), D22)),
                       bsens     |-> Add(acc.bsens, Div(Mul(Mul(N12sens, cf.N12crit), 0 - 2 * FP), b))]])))

computeCriticalLocalShearLoad(o, D11, D22, xi, rho_0, zeta) ==
  LET s_p == o.stiffenerPitch
  IN Local(Div(Div(Mul(PiSq, Pow025(Mul(Mul(Mul(D11, D22), D22), D22))), s_p), s_p),
           LAMBDA dim_factor :
       IF getShearGP(o) # NULL
       THEN LET Xtest == Arr4(Log(xi), Log(rho_0), 0, Log(zeta))
            IN [ret   |-> Mul(dim_factor, Exp(predictMeanTestData(getShearGP(o), Xtest))),
                path  |-> "GP",
                deref |-> {"shearGP"}]
       ELSE Local(nondimShearParams(xi, 0), LAMBDA nsp :
              [ret   |-> Mul(dim_factor, Div(ShearNum(nsp.lam1bar, nsp.lam2bar, xi),
                                             ShearDen(nsp.lam1bar, nsp.lam2bar))),
               path  |-> "CF",
               deref |-> {}]))

computeCriticalLocalShearLoadSens(o, N12sens, D11, D22, xi, rho_0, zeta, acc, heap) ==
  LET s_p == o.stiffenerPitch
  IN Local(Div(Div(Mul(PiSq, Pow025(Mul(Mul(Mul(D11, D22), D22), D22))), s_p), s_p),
           LAMBDA dim_factor :
       IF getShearGP(o) # NULL
       THEN Local(Arr4(Log(xi), Log(rho_0), 0, Log(zeta)), LAMBDA Xtest :
            Local(predictMeanTestData(getShearGP(o), Xtest), LAMBDA arg :
            Local(Mul(dim_factor, Exp(arg)), LAMBDA output :
            Local(Mul(N12sens, output), LAMBDA Ysens :
            Local(predictMeanTestDataSens(getShearGP(o), Ysens, Xtest, heap).Xtestsens,
                  LAMBDA Xtestsens :
              [ret   |-> output,
               path  |-> "GP",
               deref |-> {"shearGP"},
               sens  |-> [xisens     |-> acc.xisens + Div(Xtestsens[0], xi),
                          rho_0sens  |-> acc.rho_0sens + Div(Xtestsens[1], rho_0),
                          zetasens   |-> acc.zetasens + Div(Xtestsens[3], zeta),
                          D11sens    |-> acc.D11sens + Div(Mul(Ysens, Num(1, 4)), D11),
                          D22sens    |-> acc.D22sens + Div(Mul(Ysens, Num(3, 4)), D22),
                          spitchsens |-> acc.spitchsens + Div(Mul(Ysens, 0 - 2 * FP), s_p)]])))))
       ELSE Local(nondimShearParamsSens(xi, 0), LAMBDA ns :
            Local(ShearCFSens(N12sens, dim_factor, xi, ns), LAMBDA cf :
              [ret   |-> cf.N12crit,
               path  |-> "CF",
               deref |-> {},
               sens  |-> [xisens     |-> Add(acc.xisens, cf.xi),
                          rho_0sens  |-> acc.rho_0sens,
                          zetasens   |-> acc.zetasens,
                          D11sens    |-> Add(acc.D11sens, Div(Mul(Mul(N12sens, cf.N12crit), Num(1, 4)), D11)),
                          D22sens    |-> Add(acc.D22sens, Div(Mul(Mul(N12sens, cf.N12crit), Num(3, 4)), D22)),
                          spitchsens |-> Add(acc.spitchsens,
                                             Div(Mul(Mul(N12sens, cf.N12crit), 0 - 2 * FP), o.stiffenerPitch))]])))

\* the nondimensional factor of the closed-form crippling solution
CripplingFactor(xi, genPoiss) == Mul(Num(476, 1000) - Mul(Num(56, 100), genPoiss - Num(2, 10)), xi)

computeStiffenerCripplingLoad(o, D11, D22, xi, rho_0, genPoiss, zeta) ==
  Local(Div(Div(Mul(PiSq, Sqrt(Mul(D11, D22))), o.stiffenerHeight), o.stiffenerHeight),
        LAMBDA dim_factor :
    IF getCripplingGP(o) # NULL
    THEN LET Xtest == Arr4(Log(xi), Log(rho_0), Log(genPoiss), Log(zeta))
         IN [ret   |-> Mul(dim_factor, Exp(predictMeanTestData(getCripplingGP(o), Xtest))),
             path  |-> "GP",
             deref |-> {"cripplingGP"}]
    ELSE [ret   |-> Mul(dim_factor, CripplingFactor(xi, genPoiss)),
          path  |-> "CF",
          deref |-> {}])

\* computeStiffenerCripplingLoadSens with the gradient in log(xi) divided by
\* rho_0 on the surrogate path
cripplingSensXiOverRho(o, N1sens, D11, D22, xi, rho_0, genPoiss, zeta, acc, heap) ==
  Local(Div(Div(Mul(PiSq, Sqrt(Mul(D11, D22))), o.stiffenerHeight), o.stiffenerHeight),
        LAMBDA dim_factor :
    IF getCripplingGP(o) # NULL
    THEN Local(Arr4(Log(xi), Log(rho_0), Log(genPoiss), Log(zeta)), LAMBDA Xtest :
         Local(predictMeanTestData(getCripplingGP(o), Xtest), LAMBDA arg :
         Local(Mul(dim_factor, Exp(arg)), LAMBDA output :
         Local(Mul(N1sens, output), LAMBDA Ysens :
         Local(predictMeanTestDataSens(getCripplingGP(o), Ysens, Xtest, heap).Xtestsens,
               LAMBDA Xtestsens :
           [ret   |-> output,
            path  |-> "GP",
            deref |-> {"cripplingGP"},
            sens  |-> [xisens        |-> acc.xisens + Div(Xtestsens[0], rho_0),
                       rho_0sens     |-> acc.rho_0sens + Div(Xtestsens[1], rho_0),
                       genPoiss_sens |-> acc.genPoiss_sens + Div(Xtestsens[2], genPoiss),
                       zetasens      |-> acc.zetasens + Div(Xtestsens[3], zeta),
                       D11sens       |-> acc.D11sens + Div(Mul(Ysens, Num(1, 2)), D11),
                       D22sens       |-> acc.D22sens + Div(Mul(Ysens, Num(1, 2)), D22),
                       sheightsens   |-> acc.sheightsens + Div(Mul(Ysens, 0 - 2 * FP), o.stiffenerHeight)]])))))
    ELSE Local(CripplingFactor(xi, genPoiss), LAMBDA nondim_factor :
         Local(Mul(dim_factor, nondim_factor), LAMBDA N11crit :
         Local(Mul(N1sens, N11crit), LAMBDA outputsens :
           [ret   |-> N11crit,
            path  |-> "CF",
            deref |-> {},
            sens  |-> [xisens        |-> acc.xisens + Div(outputsens, xi),
                       rho_0sens     |-> acc.rho_0sens,
                       genPoiss_sens |-> acc.genPoiss_sens
                                           + Mul(Mul(Div(outputsens, nondim_factor), 0 - Num(56, 100)), xi),
                       zetasens      |-> acc.zetasens,
                       D11sens       |-> acc.D11sens + Div(Mul(outputsens, Num(1, 2)), D11),
                       D22sens       |-> acc.D22sens + Div(Mul(outputsens, Num(1, 2)), D22),
                       sheightsens   |-> acc.sheightsens + Div(Mul(outputsens, 0 - 2 * FP), o.stiffenerHeight)]]))))

computeStiffenerCripplingLoadSens(o, N1sens, D11, D22, xi, rho_0, genPoiss, zeta, acc, heap) ==
  Local(Div(Div(Mul(PiSq, Sqrt(Mul(D11, D22))), o.stiffenerHeight), o.stiffenerHeight),
        LAMBDA dim_factor :
    IF getCripplingGP(o) # NULL
    THEN Local(Arr4(Log(xi), Log(rho_0), Log(genPoiss), Log(zeta)), LAMBDA Xtest :
         Local(predictMeanTestData(getCripplingGP(o), Xtest), LAMBDA arg :
         Local(Mul(dim_factor, Exp(arg)), LAMBDA output :
         Local(Mul(N1sens, output), LAMBDA Ysens :
         Local(predictMeanTestDataSens(getCripplingGP(o), Ysens, Xtest, heap).Xtestsens,
               LAMBDA Xtestsens :
           [ret   |-> output,
            path  |-> "GP",
            deref |-> {"cripplingGP"},
            sens  |-> [xisens        |-> acc.xisens + Div(Xtestsens[0], xi),
                       rho_0sens     |-> acc.rho_0sens + Div(Xtestsens[1], rho_0),
                       genPoiss_sens |-> acc.genPoiss_sens + Div(Xtestsens[2], genPoiss),
                       zetasens      |-> acc.zetasens + Div(Xtestsens[3], zeta),
                       D11sens       |-> acc.D11sens + Div(Mul(Ysens, Num(1, 2)), D11),
                       D22sens       |-> acc.D22sens + Div(Mul(Ysens, Num(1, 2)), D22),
                       sheightsens   |-> acc.sheightsens + Div(Mul(Ysens, 0 - 2 * FP), o.stiffenerHeight)]])))))
    ELSE Local(CripplingFactor(xi, genPoiss), LAMBDA nondim_factor :
         Local(Mul(dim_factor, nondim_factor), LAMBDA N11crit :
         Local(Mul(N1sens, N11crit), LAMBDA outputsens :
           [ret   |-> N11crit,
            path  |-> "CF",
            deref |-> {},
            sens  |-> [xisens        |-> acc.xisens + Div(outputsens, xi),
                       rho_0sens     |-> acc.rho_0sens,
                       genPoiss_sens |-> acc.genPoiss_sens
                                           + Mul(Mul(Div(outputsens, nondim_factor), 0 - Num(56, 100)), xi),
                       zetasens      |-> acc.zetasens,
                       D11sens       |-> acc.D11sens + Div(Mul(outputsens, Num(1, 2)), D11),
                       D22sens       |-> acc.D22sens + Div(Mul(outputsens, Num(1, 2)), D22),
                       sheightsens   |-> acc.sheightsens + Div(Mul(outputsens, 0 - 2 * FP), o.stiffenerHeight)]]))))


\* ------------------------------------------------------------------------
\* The failure evaluator.  The stresses are those of the in-plane components
\* e[0 .. 2] of a strain; ext holds the strain transform and what the
\* material-failure collaborators of the base class return.
\* ------------------------------------------------------------------------

NUM_Q_ENTRIES == 6

NUM_FAILURES == 5

NUM_STRESSES == 9

\* sum over the plies of plyFrac * Q[k]
QSum(numPlies, QMats, plyFracs, k) ==
  Sum([ii \in 0 .. numPlies - 1 |-> Mul(plyFracs[ii], QMats[ii * NUM_Q_ENTRIES + k])], numPlies)

\* computePanelStiffness and extractTangentStiffness: A = t sum f Q and
\* D = t^3/12 sum f Q, entries 11, 12, 16, 22, 26, 66 at 0 .. 5
computePanelStiffness(o) ==
  [A |-> [k \in 0 .. NUM_Q_ENTRIES - 1 |->
            Mul(o.panelThick, QSum(o.numPanelPlies, o.panelQMats, o.panelPlyFracs, k))],
   D |-> [k \in 0 .. NUM_Q_ENTRIES - 1 |->
            Mul(Div(Pow3(o.panelThick), 12 * FP),
                QSum(o.numPanelPlies, o.panelQMats, o.panelPlyFracs, k))]]

computeStiffenerStiffness(o) ==
  [A |-> [k \in 0 .. NUM_Q_ENTRIES - 1 |->
            Mul(o.stiffenerThick, QSum(o.numStiffenerPlies, o.stiffenerQMats, o.stiffenerPlyFracs, k))],
   D |-> [k \in 0 .. NUM_Q_ENTRIES - 1 |->
            Mul(Div(Pow3(o.stiffenerThick), 12 * FP),
                QSum(o.numStiffenerPlies, o.stiffenerQMats, o.stiffenerPlyFracs, k))]]

\* computePanelStress and computeStiffenerStress after transformStrain: the
\* in-plane stress resultants A e
InPlaneStress(A, e) ==
  [ii \in 0 .. 2 |->
     CASE ii = 0 -> Mul(A[0], e[0]) + Mul(A[1], e[1]) + Mul(A[2], e[2])
       [] ii = 1 -> Mul(A[1], e[0]) + Mul(A[3], e[1]) + Mul(A[4], e[2])
       [] OTHER  -> Mul(A[2], e[0]) + Mul(A[4], e[1]) + Mul(A[5], e[2])]

computePanelStress(o, e) == InPlaneStress(computePanelStiffness(o).A, e)

computeStiffenerStress(o, e) == InPlaneStress(computeStiffenerStiffness(o).A, e)

\* transformStrain: the strain of the stiffener, a linear map of the strain of
\* the shell; ext.transform[i][j] is the coefficient of the shell strain j in
\* the stiffener strain i
transformStrain(ext, e) ==
  [i \in 0 .. 2 |->
     Sum([j \in 0 .. NUM_STRESSES - 1 |-> Mul(ext.transform[i][j], e[j])], NUM_STRESSES)]

\* transformStrainSens: the transpose of that map, from a sensitivity to the
\* stiffener strain to a sensitivity to the shell strain
transformStrainSens(ext, stiffenerSens) ==
  [j \in 0 .. NUM_STRESSES - 1 |->
     Sum([i \in 0 .. 2 |-> Mul(ext.transform[i][j], stiffenerSens[i])], 3)]

\* bucklingEnvelopeSens: the interaction rule of the axial and the shear load
\* ratios, with its four partial derivatives
bucklingEnvelopeSens(N1, N1Crit, N12, N12Crit) ==
  Local(Div(N1, N1Crit), LAMBDA N1Ratio :
  Local(Div(N12, N12Crit), LAMBDA N12Ratio :
  Local(Sqrt(Add(Pow2(N1Ratio), Mul(4 * FP, Pow2(N12Ratio)))), LAMBDA root :
    LET dfdN1R   == IF root = 0 THEN 0 ELSE Mul(Num(1, 2), Add(FP, Div(N1Ratio, root)))
        dfdN12R  == IF root = 0 THEN 0 ELSE Div(Mul(2 * FP, N12Ratio), root)
    IN [fail        |-> Mul(Num(1, 2), Add(N1Ratio, root)),
        N1Sens      |-> Div(dfdN1R, N1Crit),
        N1CritSens  |-> Div(Mul(Neg(dfdN1R), N1Ratio), N1Crit),
        N12Sens     |-> Div(dfdN12R, N12Crit),
        N12CritSens |-> Div(Mul(Neg(dfdN12R), N12Ratio), N12Crit)])))

bucklingEnvelope(N1, N1Crit, N12, N12Crit) == bucklingEnvelopeSens(N1, N1Crit, N12, N12Crit).fail

\* the panel: stiffness entries, dimensions and nondimensional parameters
PanelParams(o) ==
  Local(computePanelStiffness(o), LAMBDA ps :
    LET Dp == ps.D
        Ap == ps.A
    IN [Ap |-> Ap, Dp |-> Dp,
        D11p |-> Dp[0], D12p |-> Dp[1], D22p |-> Dp[3], D66p |-> Dp[5],
        A11p |-> Ap[0], A66p |-> Ap[5],
        a |-> o.panelLength,
        b |-> o.panelWidth,
        delta     |-> computeStiffenerAreaRatio(o),
        rho0Panel |-> computeAffineAspectRatio(Dp[0], Dp[3], o.panelLength, o.panelWidth),
        xiPanel   |-> computeGeneralizedRigidity(Dp[0], Dp[3], Dp[1], Dp[5]),
        gamma     |-> computeStiffenerStiffnessRatio(o, Dp[0]),
        zetaPanel |-> computeTransverseShearParameter(Ap[5], Ap[0], o.panelWidth, o.panelThick)])

\* the stiffener: stiffness entries, dimensions and nondimensional parameters
StiffenerParams(o) ==
  Local(computeStiffenerStiffness(o), LAMBDA ss :
    LET Ds == ss.D
        As == ss.A
    IN [As |-> As, Ds |-> Ds,
        D11s |-> Ds[0], D12s |-> Ds[1], D22s |-> Ds[3], D66s |-> Ds[5],
        A11s |-> As[0], A66s |-> As[5],
        bStiff |-> o.stiffenerHeight,
        hStiff |-> o.stiffenerThick,
        rho0Stiff |-> computeAffineAspectRatio(Ds[0], Ds[3], o.panelLength, o.stiffenerHeight),
        xiStiff   |-> computeGeneralizedRigidity(Ds[0], Ds[3], Ds[1], Ds[5]),
        genPoiss  |-> computeGeneralizedPoissonsRatio(Ds[1], Ds[5]),
        zetaStiff |-> computeTransverseShearParameter(As[5], As[0], o.stiffenerHeight, o.stiffenerThick)])

\* The forward states shared by computeFailureValues and the two reverse
\* passes: the critical loads, the envelopes with their partial
\* derivatives, and the five failure values.
ForwardStates(o, e, ext) ==
  Local(PanelParams(o), LAMBDA P :
  Local(StiffenerParams(o), LAMBDA S :
  Local(computePanelStress(o, e), LAMBDA panelStress :
  Local(computeStiffenerStress(o, transformStrain(ext, e)), LAMBDA stiffenerStress :
  Local(computeCriticalGlobalAxialLoad(o, P.D11p, P.D22p, P.b, P.delta, P.rho0Panel,
                                       P.xiPanel, P.gamma, P.zetaPanel).ret, LAMBDA N1CritGlobal :
  Local(computeCriticalGlobalShearLoad(o, P.D11p, P.D22p, P.b, P.xiPanel,
                                       P.rho0Panel, P.gamma, P.zetaPanel).ret, LAMBDA N12CritGlobal :
  Local(computeCriticalLocalAxialLoad(o, P.D11p, P.D22p, P.rho0Panel, P.xiPanel,
                                      P.zetaPanel).ret, LAMBDA N1CritLocal :
  Local(computeCriticalLocalShearLoad(o, P.D11p, P.D22p, P.xiPanel, P.rho0Panel,
                                      P.zetaPanel).ret, LAMBDA N12CritLocal :
  Local(computeStiffenerCripplingLoad(o, S.D11s, S.D22s, S.xiStiff, S.rho0Stiff,
                                      S.genPoiss, S.zetaStiff).ret, LAMBDA N1CritCrippling :
  Local(bucklingEnvelopeSens(Neg(panelStress[0]), N1CritGlobal, panelStress[2], N12CritGlobal),
        LAMBDA global :
  Local(bucklingEnvelopeSens(Neg(panelStress[0]), N1CritLocal, panelStress[2], N12CritLocal),
        LAMBDA local :
    LET N1 == Neg(stiffenerStress[0])
    IN [P |-> P, S |-> S,
        panelStress |-> panelStress, stiffenerStress |-> stiffenerStress,
        N1CritGlobal |-> N1CritGlobal, N12CritGlobal |-> N12CritGlobal,
        N1CritLocal |-> N1CritLocal, N12CritLocal |-> N12CritLocal,
        N1CritCrippling |-> N1CritCrippling, N1 |-> N1,
        global |-> global, local |-> local,
        fails |-> [ii \in 0 .. NUM_FAILURES - 1 |->
                     CASE ii = 0 -> ext.panelFail
                       [] ii = 1 -> ext.stiffenerFail
                       [] ii = 2 -> global.fail
                       [] ii = 3 -> local.fail
                       [] OTHER  -> Div(N1, N1CritCrippling)]])))))))))))

\* computeFailureValues with the local buckling ratio stored before the global
\* one; the agreement of the passes on the forward state (C26) is tested
\* against it
computeFailureValuesLocalFirst(o, e, ext) ==
  Local(ForwardStates(o, e, ext), LAMBDA fs :
    [fails |-> [ii \in 0 .. NUM_FAILURES - 1 |->
                  CASE ii = 2 -> fs.fails[3] [] ii = 3 -> fs.fails[2] [] OTHER -> fs.fails[ii]],
     ret   |-> ksAggregation(fs.fails, NUM_FAILURES, o.ksWeight)])

\* TACSGPBladeStiffenedShellConstitutive::computeFailureValues
computeFailureValues(o, e, ext) ==
  Local(ForwardStates(o, e, ext), LAMBDA fs :
    [fails |-> fs.fails, ret |-> ksAggregation(fs.fails, NUM_FAILURES, o.ksWeight)])

\* evalFailureStrainSens: the failure value returned, the strain
\* sensitivities written to sens, and the envelope derivatives before
\* (chain) and after (weighted) the products with dKSdf
evalFailureStrainSens(o, e, ext) ==
  Local(ForwardStates(o, e, ext), LAMBDA fs :
  Local(ksAggregationSens(fs.fails, NUM_FAILURES, o.ksWeight), LAMBDA dKSdf :
    LET Ap    == fs.P.Ap
        As    == fs.S.As
        base  == [ii \in 0 .. NUM_STRESSES - 1 |->
                    Mul(dKSdf[0], ext.panelFailSens[ii]) + Mul(dKSdf[1], ext.stiffenerFailSens[ii])]
        N1LocalSens   == Mul(fs.local.N1Sens, dKSdf[2])
        N12LocalSens  == Mul(fs.local.N12Sens, dKSdf[2])
        N1GlobalSens  == Mul(fs.global.N1Sens, dKSdf[3])
        N12GlobalSens == Mul(fs.global.N12Sens, dKSdf[3])
        N1stiffSens   == Div(dKSdf[4], fs.N1CritCrippling)
        buckling(k1, k12) == Mul(N1LocalSens, 0 - Ap[k1]) + Mul(N12LocalSens, Ap[k12])
                               + Mul(N1GlobalSens, 0 - Ap[k1]) + Mul(N12GlobalSens, Ap[k12])
                               + Mul(N1stiffSens, 0 - As[k1])
    IN [ret   |-> ksAggregation(fs.fails, NUM_FAILURES, o.ksWeight),
        fails |-> fs.fails,
        dKSdf |-> dKSdf,
        chain |-> [N1GlobalSens |-> fs.global.N1Sens, N12GlobalSens |-> fs.global.N12Sens,
                   N1LocalSens |-> fs.local.N1Sens, N12LocalSens |-> fs.local.N12Sens],
        weighted |-> [N1GlobalSens |-> N1GlobalSens, N12GlobalSens |-> N12GlobalSens,
                      N1LocalSens |-> N1LocalSens, N12LocalSens |-> N12LocalSens,
                      N1stiffSens |-> N1stiffSens],
        sens  |-> [ii \in 0 .. NUM_STRESSES - 1 |->
                     CASE ii = 0 -> base[ii] + buckling(0, 2)
                       [] ii = 1 -> base[ii] + buckling(1, 4)
                       [] ii = 2 -> base[ii] + buckling(2, 5)
                       [] OTHER  -> base[ii]]]))


\* ------------------------------------------------------------------------
\* addFailureDVSens.  B is the record of the intermediate buffers: DV
\* (DVsens: panel length, stiffener pitch, panel thickness, stiffener height,
\* stiffener thickness, panel width), Dp and Ap (Dpsens, Apsens: entries 11,
\* 12, 22, 66), ND (NDsens: xi, rho0, delta, gamma, zeta), Ds and As
\* (Dssens, Assens) and sND (stiffNDsens: xi, rho0, genPoiss, zeta).
\* ------------------------------------------------------------------------

\* the buffers after the memsets
ZeroBuffers ==
  [DV |-> Zeros(6), Dp |-> Zeros(4), Ap |-> Zeros(4), ND |-> Zeros(5),
   Ds |-> Zeros(4), As |-> Zeros(4), sND |-> Zeros(4)]

\* the forward states, the weights dKSdf and the envelope derivatives before
\* (chain) and after (w) the products with dKSdf
DVSensStates(o, scale, e, ext) ==
  Local(ForwardStates(o, e, ext), LAMBDA fs :
  Local(ksAggregationSens(fs.fails, NUM_FAILURES, o.ksWeight), LAMBDA dKSdf :
    [fs |-> fs, scale |-> scale, dKSdf |-> dKSdf, e |-> e, ext |-> ext,
     chain |-> [N1GlobalSens |-> fs.global.N1Sens, N1CritGlobalSens |-> fs.global.N1CritSens,
                N12GlobalSens |-> fs.global.N12Sens, N12CritGlobalSens |-> fs.global.N12CritSens,
                N1LocalSens |-> fs.local.N1Sens, N1CritLocalSens |-> fs.local.N1CritSens,
                N12LocalSens |-> fs.local.N12Sens, N12CritLocalSens |-> fs.local.N12CritSens],
     w |-> [N1GlobalSens |-> Mul(fs.global.N1Sens, dKSdf[2]),
            N1CritGlobalSens |-> Mul(fs.global.N1CritSens, dKSdf[2]),
            N12GlobalSens |-> Mul(fs.global.N12Sens, dKSdf[2]),
            N12CritGlobalSens |-> Mul(fs.global.N12CritSens, dKSdf[2]),
            N1LocalSens |-> Mul(fs.local.N1Sens, dKSdf[3]),
            N1CritLocalSens |-> Mul(fs.local.N1CritSens, dKSdf[3]),
            N12LocalSens |-> Mul(fs.local.N12Sens, dKSdf[3]),
            N12CritLocalSens |-> Mul(fs.local.N12CritSens, dKSdf[3]),
            stiffN1sens |-> Div(Mul(dKSdf[4], fs.fails[4]), fs.N1),
            stiffN1critsens |-> Div(Mul(Mul(dKSdf[4], fs.fails[4]), 0 - FP), fs.N1CritCrippling)]]))

\* #2 global panel buckling: the two critical-load sensitivities
GlobalStage(o, C, B, heap) ==
  LET P == C.fs.P
  IN Local(computeCriticalGlobalAxialLoadSens(o, C.w.N1CritGlobalSens, P.D11p, P.D22p, P.b, P.delta,
             P.rho0Panel, P.xiPanel, P.gamma, P.zetaPanel,
             [D11sens |-> B.Dp[0], D22sens |-> B.Dp[2], bsens |-> B.DV[5], deltasens |-> B.ND[2],
              rho_0sens |-> B.ND[1], xisens |-> B.ND[0], gammasens |-> B.ND[3],
              zetasens |-> B.ND[4]], heap).sens, LAMBDA r1 :
     Local([B EXCEPT !.Dp = [@ EXCEPT ![0] = r1.D11sens, ![2] = r1.D22sens],
                     !.DV = [@ EXCEPT ![5] = r1.bsens],
                     !.ND = [@ EXCEPT ![0] = r1.xisens, ![1] = r1.rho_0sens, ![2] = r1.deltasens,
                                      ![3] = r1.gammasens, ![4] = r1.zetasens]], LAMBDA B1 :
     Local(computeCriticalGlobalShearLoadSens(o, C.w.N12CritGlobalSens, P.D11p, P.D22p, P.b,
             P.xiPanel, P.rho0Panel, P.gamma, P.zetaPanel,
             [D11sens |-> B1.Dp[0], D22sens |-> B1.Dp[2], bsens |-> B1.DV[5], xisens |-> B1.ND[0],
              rho_0sens |-> B1.ND[1], gammasens |-> B1.ND[3], zetasens |-> B1.ND[4]], heap).sens,
           LAMBDA r2 :
       [B1 EXCEPT !.Dp = [@ EXCEPT ![0] = r2.D11sens, ![2] = r2.D22sens],
                  !.DV = [@ EXCEPT ![5] = r2.bsens],
                  !.ND = [@ EXCEPT ![0] = r2.xisens, ![1] = r2.rho_0sens, ![3] = r2.gammasens,
                                   ![4] = r2.zetasens]])))

\* #3 local panel buckling: the two critical-load sensitivities
LocalStage(o, C, B, heap) ==
  LET P == C.fs.P
  IN Local(computeCriticalLocalAxialLoadSens(o, C.w.N1CritLocalSens, P.D11p, P.D22p, P.rho0Panel,
             P.xiPanel, P.zetaPanel,
             [D11sens |-> B.Dp[0], D22sens |-> B.Dp[2], rho_0sens |-> B.ND[1], xisens |-> B.ND[0],
              spitchsens |-> B.DV[1], zetasens |-> B.ND[4]], heap).sens, LAMBDA r1 :
     Local([B EXCEPT !.Dp = [@ EXCEPT ![0] = r1.D11sens, ![2] = r1.D22sens],
                     !.DV = [@ EXCEPT ![1] = r1.spitchsens],
                     !.ND = [@ EXCEPT ![0] = r1.xisens, ![1] = r1.rho_0sens, ![4] = r1.zetasens]],
           LAMBDA B1 :
     Local(computeCriticalLocalShearLoadSens(o, C.w.N12CritLocalSens, P.D11p, P.D22p, P.xiPanel,
             P.rho0Panel, P.zetaPanel,
             [D11sens |-> B1.Dp[0], D22sens |-> B1.Dp[2], spitchsens |-> B1.DV[1],
              xisens |-> B1.ND[0], rho_0sens |-> B1.ND[1], zetasens |-> B1.ND[4]], heap).sens,
           LAMBDA r2 :
       [B1 EXCEPT !.Dp = [@ EXCEPT ![0] = r2.D11sens, ![2] = r2.D22sens],
                  !.DV = [@ EXCEPT ![1] = r2.spitchsens],
                  !.ND = [@ EXCEPT ![0] = r2.xisens, ![1] = r2.rho_0sens, ![4] = r2.zetasens]])))

\* the back-propagation of the panel's nondimensional parameters, whose
\* sensitivities ND the critical loads have left
PanelNDStage(o, C, ND, B) ==
  LET P == C.fs.P
  IN Local(computeGeneralizedRigiditySens(ND[0], P.D11p, P.D22p, P.D12p, P.D66p,
             [D11sens |-> B.Dp[0], D22sens |-> B.Dp[2], D12sens |-> B.Dp[1], D66sens |-> B.Dp[3]]),
           LAMBDA r1 :
     Local([B EXCEPT !.Dp = [@ EXCEPT ![0] = r1.D11sens, ![2] = r1.D22sens, ![1] = r1.D12sens,
                                      ![3] = r1.D66sens]], LAMBDA B1 :
     Local(computeAffineAspectRatioSens(ND[1], P.D11p, P.D22p, P.a, P.b,
             [D11sens |-> B1.Dp[0], D22sens |-> B1.Dp[2], asens |-> B1.DV[0], bsens |-> B1.DV[5]]),
           LAMBDA r2 :
     Local([B1 EXCEPT !.Dp = [@ EXCEPT ![0] = r2.D11sens, ![2] = r2.D22sens],
                      !.DV = [@ EXCEPT ![0] = r2.asens, ![5] = r2.bsens]], LAMBDA B2 :
     Local(computeStiffenerAreaRatioSens(o, ND[2],
             [sthickSens |-> B2.DV[4], sheightSens |-> B2.DV[3], spitchSens |-> B2.DV[1],
              pthickSens |-> B2.DV[2]]), LAMBDA r3 :
     Local([B2 EXCEPT !.DV = [@ EXCEPT ![4] = r3.sthickSens, ![3] = r3.sheightSens,
                                       ![1] = r3.spitchSens, ![2] = r3.pthickSens]], LAMBDA B3 :
     Local(computeStiffenerStiffnessRatioSens(o, ND[3], P.D11p,
             [D11sens |-> B3.Dp[0], sthickSens |-> B3.DV[4], sheightSens |-> B3.DV[3],
              spitchSens |-> B3.DV[1]]), LAMBDA r4 :
     Local([B3 EXCEPT !.Dp = [@ EXCEPT ![0] = r4.D11sens],
                      !.DV = [@ EXCEPT ![4] = r4.sthickSens, ![3] = r4.sheightSens,
                                       ![1] = r4.spitchSens]], LAMBDA B4 :
     Local(computeTransverseShearParameterSens(ND[4], P.A66p, P.A11p, P.b, o.panelThick,
             [A66sens |-> B4.Ap[3], A11sens |-> B4.Ap[0], bsens |-> B4.DV[5], hsens |-> B4.DV[2]]),
           LAMBDA r5 :
       [B4 EXCEPT !.Ap = [@ EXCEPT ![3] = r5.A66sens, ![0] = r5.A11sens],
                  !.DV = [@ EXCEPT ![5] = r5.bsens, ![2] = r5.hsens]])))))))))

\* #4 stiffener crippling: the critical-load sensitivity
CripplingStage(o, C, B, heap) ==
  LET S == C.fs.S
  IN Local(computeStiffenerCripplingLoadSens(o, C.w.stiffN1critsens, S.D11s, S.D22s, S.xiStiff,
             S.rho0Stiff, S.genPoiss, S.zetaStiff,
             [D11sens |-> B.Ds[0], D22sens |-> B.Ds[2], sheightsens |-> B.DV[3],
              xisens |-> B.sND[0], rho_0sens |-> B.sND[1], genPoiss_sens |-> B.sND[2],
              zetasens |-> B.sND[3]], heap).sens, LAMBDA r :
       [B EXCEPT !.Ds = [@ EXCEPT ![0] = r.D11sens, ![2] = r.D22sens],
                 !.DV = [@ EXCEPT ![3] = r.sheightsens],
                 !.sND = [@ EXCEPT ![0] = r.xisens, ![1] = r.rho_0sens, ![2] = r.genPoiss_sens,
                                   ![3] = r.zetasens]])

\* the back-propagation of the stiffener's nondimensional parameters
StiffenerNDStage(o, C, sND, B) ==
  LET S == C.fs.S
  IN Local(computeGeneralizedRigiditySens(sND[0], S.D11s, S.D22s, S.D12s, S.D66s,
             [D11sens |-> B.Ds[0], D22sens |-> B.Ds[2], D12sens |-> B.Ds[1], D66sens |-> B.Ds[3]]),
           LAMBDA r1 :
     Local([B EXCEPT !.Ds = [@ EXCEPT ![0] = r1.D11sens, ![2] = r1.D22sens, ![1] = r1.D12sens,
                                      ![3] = r1.D66sens]], LAMBDA B1 :
     Local(computeAffineAspectRatioSens(sND[1], S.D11s, S.D22s, o.panelLength, S.bStiff,
             [D11sens |-> B1.Ds[0], D22sens |-> B1.Ds[2], asens |-> B1.DV[0], bsens |-> B1.DV[3]]),
           LAMBDA r2 :
     Local([B1 EXCEPT !.Ds = [@ EXCEPT ![0] = r2.D11sens, ![2] = r2.D22sens],
                      !.DV = [@ EXCEPT ![0] = r2.asens, ![3] = r2.bsens]], LAMBDA B2 :
     Local(computeGeneralizedPoissonsRatioSens(sND[2], S.D12s, S.D66s,
             [D12sens |-> B2.Ds[1], D66sens |-> B2.Ds[3]]), LAMBDA r3 :
     Local([B2 EXCEPT !.Ds = [@ EXCEPT ![1] = r3.D12sens, ![3] = r3.D66sens]], LAMBDA B3 :
     Local(computeTransverseShearParameterSens(sND[3], S.A66s, S.A11s, S.bStiff, S.hStiff,
             [A66sens |-> B3.As[3], A11sens |-> B3.As[0], bsens |-> B3.DV[3], hsens |-> B3.DV[4]]),
           LAMBDA r4 :
       [B3 EXCEPT !.As = [@ EXCEPT ![3] = r4.A66sens, ![0] = r4.A11sens],
                  !.DV = [@ EXCEPT ![3] = r4.bsens, ![4] = r4.hsens]])))))))


\* One write dfdx[idx] += val, with the design variable wrt the value is a
\* derivative with respect to, and the statement by that makes it.
Write(idx, val, wrt, by) == [idx |-> idx, val |-> val, wrt |-> wrt, by |-> by]

\* The collaborators that add into the sub-block of dfdx they are handed
\* (base is the index of its start): the panel's sub-block starts with the
\* panel thickness, the stiffener's with the stiffener height followed by
\* the stiffener thickness.
addPanelFailureDVSens(C, scale, base) ==
  << Write(base, Mul(scale, C.ext.panelFailDV), "panelThick", "addPanelFailureDVSens") >>

addStiffenerFailureDVSens(C, scale, base) ==
  << Write(base, Mul(scale, C.ext.stiffenerFailDV[0]), "stiffenerHeight", "addStiffenerFailureDVSens"),
     Write(base + 1, Mul(scale, C.ext.stiffenerFailDV[1]), "stiffenerThick", "addStiffenerFailureDVSens") >>

\* addStrainTransformProductDVsens is handed dfdx itself
addStrainTransformProductDVsens(o, C, scale) ==
  << Write(o.panelThickLocalNum, Mul(scale, C.ext.transformDV[0]), "panelThick",
           "addStrainTransformProductDVsens"),
     Write(o.stiffenerHeightLocalNum, Mul(scale, C.ext.transformDV[1]), "stiffenerHeight",
           "addStrainTransformProductDVsens"),
     Write(o.stiffenerThickLocalNum, Mul(scale, C.ext.transformDV[2]), "stiffenerThick",
           "addStrainTransformProductDVsens") >>

\* addPanelStressDVSens: scale * dfdStress . d(A e)/d(panel thickness)
addPanelStressDVSens(o, C, scale, dfdPanelStress, base, by) ==
  Local(InPlaneStress([k \in 0 .. NUM_Q_ENTRIES - 1 |->
                         QSum(o.numPanelPlies, o.panelQMats, o.panelPlyFracs, k)], C.e), LAMBDA dN :
    << Write(base, Mul(scale, Add(Mul(dfdPanelStress[0], dN[0]), Mul(dfdPanelStress[2], dN[2]))),
             "panelThick", by) >>)

\* addStiffenerStressDVSens: scale * dfdStress . d(stiffener stress)/d(height,
\* thickness)
addStiffenerStressDVSens(o, C, scale, dfdStiffStress, base) ==
  Local(InPlaneStress([k \in 0 .. NUM_Q_ENTRIES - 1 |->
                         QSum(o.numStiffenerPlies, o.stiffenerQMats, o.stiffenerPlyFracs, k)], C.e),
        LAMBDA dN :
    << Write(base, Mul(scale, Mul(dfdStiffStress[0], C.ext.stiffenerStressDV)), "stiffenerHeight",
             "addStiffenerStressDVSens"),
       Write(base + 1, Mul(scale, Mul(dfdStiffStress[0], dN[0])), "stiffenerThick",
             "addStiffenerStressDVSens") >>)

\* the writes of the D and of the A sensitivities through the thickness t of
\* the panel or of the stiffener, one for every ply
MatrixWrites(active, dvNum, scale, t, numPlies, QMats, plyFracs, Dsens, Asens, wrt) ==
  LET dMatdt == Mul(Mul(Num(1, 4), t), t)
      Dot(Xsens, ii) == Mul(Xsens[0], QMats[ii * NUM_Q_ENTRIES + 0])
                          + Mul(Xsens[2], QMats[ii * NUM_Q_ENTRIES + 3])
                          + Mul(Xsens[1], QMats[ii * NUM_Q_ENTRIES + 1])
                          + Mul(Xsens[3], QMats[ii * NUM_Q_ENTRIES + 5])
  IN IF active
     THEN [ii \in 1 .. numPlies |->
             Write(dvNum, Mul(Mul(Mul(scale, dMatdt), plyFracs[ii - 1]), Dot(Dsens, ii - 1)), wrt, "Dsens")]
          \o [ii \in 1 .. numPlies |->
                Write(dvNum, Mul(Mul(scale, plyFracs[ii - 1]), Dot(Asens, ii - 1)), wrt, "Asens")]
     ELSE << >>

\* dfdx after the writes w[1 .. n]
RECURSIVE ApplyWrites(_, _, _)
ApplyWrites(dfdx, w, n) ==
  IF n = 0 THEN dfdx
  ELSE Local(ApplyWrites(dfdx, w, n - 1), LAMBDA d :
         IF w[n].idx \in DOMAIN d THEN [d EXCEPT ![w[n].idx] = Add(@, w[n].val)] ELSE d)

\* addFailureDVSens: dfdx on return, the writes made, and the buffers after
\* each section
addFailureDVSens(o, scale, e, ext, dfdx, heap) ==
  Local(DVSensStates(o, scale, e, ext), LAMBDA C :
    LET w0 == addPanelFailureDVSens(C, Mul(scale, C.dKSdf[0]), o.panelDVStartNum)
                \o addStiffenerFailureDVSens(C, Mul(scale, C.dKSdf[1]), o.stiffenerDVStartNum)
                \o addStrainTransformProductDVsens(o, C, Mul(scale, C.dKSdf[1]))
        w1 == addPanelStressDVSens(o, C, scale, [ii \in 0 .. 2 |->
                                      CASE ii = 0 -> Neg(C.w.N1GlobalSens)
                                        [] ii = 2 -> C.w.N12GlobalSens
                                        [] OTHER  -> 0],
                                   o.panelDVStartNum, "addPanelStressDVSens (global)")
        w2 == addPanelStressDVSens(o, C, scale, [ii \in 0 .. 2 |->
                                      CASE ii = 0 -> Neg(C.w.N1LocalSens)
                                        [] ii = 2 -> C.w.N12LocalSens
                                        [] OTHER  -> 0],
                                   o.panelDVStartNum, "addPanelStressDVSens (local)")
        w4 == addStiffenerStressDVSens(o, C, scale, [ii \in 0 .. 2 |->
                                          IF ii = 0 THEN Neg(C.w.stiffN1sens) ELSE 0],
                                       o.panelDVStartNum)
    IN Local(GlobalStage(o, C, ZeroBuffers, heap), LAMBDA B1 :
       Local(LocalStage(o, C, B1, heap), LAMBDA B2 :
       Local(PanelNDStage(o, C, B2.ND, B2), LAMBDA B3 :
       Local(MatrixWrites(o.panelThickNum >= 0, o.panelThickLocalNum, scale, o.panelThick,
                          o.numPanelPlies, o.panelQMats, o.panelPlyFracs, B3.Dp, B3.Ap,
                          "panelThick"), LAMBDA w3 :
       Local(CripplingStage(o, C, B3, heap), LAMBDA B4 :
       Local(StiffenerNDStage(o, C, B4.sND, B4), LAMBDA B5 :
       Local(MatrixWrites(o.stiffenerThickLocalNum >= 0, o.stiffenerThickLocalNum, scale,
                          o.stiffenerThick, o.numStiffenerPlies, o.stiffenerQMats,
                          o.stiffenerPlyFracs, B5.Ds, B5.As, "stiffenerThick"), LAMBDA w5 :
       Local(w0 \o w1 \o w2 \o w3 \o w4 \o w5, LAMBDA writes :
         [dfdx |-> ApplyWrites(dfdx, writes, Len(writes)),
          writes |-> writes,
          fails |-> C.fs.fails, dKSdf |-> C.dKSdf, chain |-> C.chain, weighted |-> C.w,
          B1 |-> B1, B2 |-> B2, B3 |-> B3, B4 |-> B4, B5 |-> B5])))))))))


\* ------------------------------------------------------------------------
\* Construction and the design variables.
\* ------------------------------------------------------------------------

\* The constructor of the base class: the design variables that are active
\* (number >= 0) take consecutive local numbers, the general ones first, then
\* the panel's sub-block, then the stiffener's.
TACSBladeStiffenedShellConstitutive(dv, nums, mat) ==
  LET On(n)  == IF n >= 0 THEN 1 ELSE 0
      c1 == On(nums.panelLengthNum)
      c2 == c1 + On(nums.stiffenerPitchNum)
      c3 == c2 + On(nums.panelThickNum)
      c4 == c3 + On(nums.stiffenerHeightNum)
      c5 == c4 + On(nums.stiffenerThickNum)
      Loc(n, c) == IF n >= 0 THEN c ELSE 0 - 1
  IN [panelLength |-> dv.panelLength, stiffenerPitch |-> dv.stiffenerPitch,
      panelThick |-> dv.panelThick, stiffenerHeight |-> dv.stiffenerHeight,
      stiffenerThick |-> dv.stiffenerThick,
      panelLengthNum |-> nums.panelLengthNum, stiffenerPitchNum |-> nums.stiffenerPitchNum,
      panelThickNum |-> nums.panelThickNum, stiffenerHeightNum |-> nums.stiffenerHeightNum,
      stiffenerThickNum |-> nums.stiffenerThickNum,
      panelLengthLocalNum |-> Loc(nums.panelLengthNum, 0),
      stiffenerPitchLocalNum |-> Loc(nums.stiffenerPitchNum, c1),
      panelThickLocalNum |-> Loc(nums.panelThickNum, c2),
      stiffenerHeightLocalNum |-> Loc(nums.stiffenerHeightNum, c3),
      stiffenerThickLocalNum |-> Loc(nums.stiffenerThickNum, c4),
      numGeneralDV |-> c2, panelDVStartNum |-> c2, stiffenerDVStartNum |-> c3,
      numDesignVars |-> c5,
      flangeFraction |-> mat.flangeFraction, E1p |-> mat.E1p, E1s |-> mat.E1s,
      ksWeight |-> mat.ksWeight,
      numPanelPlies |-> mat.numPanelPlies, panelQMats |-> mat.panelQMats,
      panelPlyFracs |-> mat.panelPlyFracs,
      numStiffenerPlies |-> mat.numStiffenerPlies, stiffenerQMats |-> mat.stiffenerQMats,
      stiffenerPlyFracs |-> mat.stiffenerPlyFracs]

\* The constructor: the panel width is the one new design variable, numbered
\* after those of the base class.
TACSGPBladeStiffenedShellConstitutive(dv, nums, mat, axialGP, shearGP, cripplingGP) ==
  LET base == TACSBladeStiffenedShellConstitutive(dv, nums, mat)
      on   == nums.panelWidthNum >= 0
  IN [f \in DOMAIN base \cup {"panelWidth", "panelWidthNum", "panelWidthLocalNum",
                              "axialGP", "shearGP", "cripplingGP"} |->
        CASE f = "panelWidth"         -> dv.panelWidth
          [] f = "panelWidthNum"      -> nums.panelWidthNum
          [] f = "panelWidthLocalNum" -> IF on THEN base.numDesignVars ELSE 0 - 1
          [] f = "numDesignVars"      -> IF on THEN base.numDesignVars + 1 ELSE base.numDesignVars
          [] f = "numGeneralDV"       -> IF on THEN base.numGeneralDV + 1 ELSE base.numGeneralDV
          [] f = "axialGP"            -> axialGP
          [] f = "shearGP"            -> shearGP
          [] f = "cripplingGP"        -> cripplingGP
          [] OTHER                    -> base[f]]

\* this->panelWidthLowerBound = 0.000
panelWidthLowerBound == 0

\* this->panelWidthUpperBound = 1e20, beyond every scalar of the model
panelWidthUpperBound == 1000000 * FP

\* setDesignVars that leaves the panel width as it is
setDesignVarsStaleWidth(o, dvs) ==
  LET Val(f, loc) == IF loc >= 0 THEN dvs[loc] ELSE o[f]
  IN [o EXCEPT !.panelLength = Val("panelLength", o.panelLengthLocalNum),
               !.stiffenerPitch = Val("stiffenerPitch", o.stiffenerPitchLocalNum),
               !.panelThick = Val("panelThick", o.panelThickLocalNum),
               !.stiffenerHeight = Val("stiffenerHeight", o.stiffenerHeightLocalNum),
               !.stiffenerThick = Val("stiffenerThick", o.stiffenerThickLocalNum)]

\* setDesignVars of the base class and then of this class, for dvLen >=
\* numDesignVars: every active design variable takes dvs[its local number]
setDesignVars(o, dvs) ==
  LET Val(f, loc) == IF loc >= 0 THEN dvs[loc] ELSE o[f]
  IN [o EXCEPT !.panelLength = Val("panelLength", o.panelLengthLocalNum),
               !.stiffenerPitch = Val("stiffenerPitch", o.stiffenerPitchLocalNum),
               !.panelThick = Val("panelThick", o.panelThickLocalNum),
               !.stiffenerHeight = Val("stiffenerHeight", o.stiffenerHeightLocalNum),
               !.stiffenerThick = Val("stiffenerThick", o.stiffenerThickLocalNum),
               !.panelWidth = IF o.panelWidthNum >= 0 THEN dvs[o.panelWidthLocalNum]
                              ELSE o.panelWidth]

\* setDesignVars(elemIndex, dvLen, dvs): nothing is set from a design vector
\* shorter than numDesignVars
setDesignVarsWithin(o, dvLen, dvs) ==
  [obj |-> IF dvLen >= o.numDesignVars THEN setDesignVars(o, dvs) ELSE o,
   ret |-> o.numDesignVars]

\* An accessor of the base class, whose code is not among the sources: with
\* dvLen >= numDesignVars it writes v[f] to the slot of each active design
\* variable f of the base class and leaves every other slot alone.
BaseSlots(o, dvLen, out, v) ==
  IF dvLen >= o.numDesignVars
  THEN [ii \in DOMAIN out |->
          CASE ii = o.panelLengthLocalNum     -> v.panelLength
            [] ii = o.stiffenerPitchLocalNum  -> v.stiffenerPitch
            [] ii = o.panelThickLocalNum      -> v.panelThick
            [] ii = o.stiffenerHeightLocalNum -> v.stiffenerHeight
            [] ii = o.stiffenerThickLocalNum  -> v.stiffenerThick
            [] OTHER                          -> out[ii]]
  ELSE out

\* the slot of the panel width, written after the accessor of the base class
WidthSlot(o, dvLen, out, value) ==
  IF dvLen >= o.numDesignVars /\ o.panelWidthNum >= 0
  THEN [out EXCEPT ![o.panelWidthLocalNum] = value]
  ELSE out

\* getDesignVars(elemIndex, dvLen, dvs)
getDesignVars(o, dvLen, dvs) ==
  [dvs |-> WidthSlot(o, dvLen,
             BaseSlots(o, dvLen, dvs,
               [panelLength |-> o.panelLength, stiffenerPitch |-> o.stiffenerPitch,
                panelThick |-> o.panelThick, stiffenerHeight |-> o.stiffenerHeight,
                stiffenerThick |-> o.stiffenerThick]),
             o.panelWidth),
   ret |-> o.numDesignVars]

\* getDesignVarNums(elemIndex, dvLen, dvNums), dvNums not null
getDesignVarNums(o, dvLen, dvNums) ==
  [dvNums |-> WidthSlot(o, dvLen,
                BaseSlots(o, dvLen, dvNums,
                  [panelLength |-> o.panelLengthNum, stiffenerPitch |-> o.stiffenerPitchNum,
                   panelThick |-> o.panelThickNum, stiffenerHeight |-> o.stiffenerHeightNum,
                   stiffenerThick |-> o.stiffenerThickNum]),
                o.panelWidthNum),
   ret |-> o.numDesignVars]

\* getDesignVarRange(elemIndex, dvLen, lb, ub); base gives the bounds the
\* base class reports for its design variables
getDesignVarRange(o, dvLen, lb, ub, base) ==
  [lb |-> WidthSlot(o, dvLen, BaseSlots(o, dvLen, lb, base.lb), panelWidthLowerBound),
   ub |-> WidthSlot(o, dvLen, BaseSlots(o, dvLen, ub, base.ub), panelWidthUpperBound),
   ret |-> o.numDesignVars]


\* the destructor of the base class, whose code is not among the sources: it
\* releases the state of the base class
destroyTACSBladeStiffenedShellConstitutive(o) == << "base" >>

\* The destructor: what it releases, in order, and the object as it leaves
\* it.  Its body calls the destructor of the base class and deletes each
\* trained model that is attached; the destructor of the base class then runs
\* as it does at the end of the destructor of any derived class.
destroyTACSGPBladeStiffenedShellConstitutive(o) ==
  LET Delete(name) == IF o[name] # NULL THEN << name >> ELSE << >>
  IN [released |-> destroyTACSBladeStiffenedShellConstitutive(o)
                     \o Delete("axialGP") \o Delete("shearGP") \o Delete("cripplingGP")
                     \o destroyTACSBladeStiffenedShellConstitutive(o),
      obj      |-> [o EXCEPT !.axialGP = NULL, !.shearGP = NULL, !.cripplingGP = NULL]]


\* ------------------------------------------------------------------------
\* The self-tests of the constitutive object.  p_input and p_output are what
\* rand() gives, input_sens is the buffer of the sensitivities as operator
\* new hands it over.  A self-test gives the object as it leaves it (obj),
\* the design variables after each group of assignments to them (during) and
\* the relative error it returns (ret).
\* ------------------------------------------------------------------------

\* the geometric design variables of the object
DesignVariables(o) ==
  [panelLength |-> o.panelLength, stiffenerPitch |-> o.stiffenerPitch,
   panelThick |-> o.panelThick, stiffenerHeight |-> o.stiffenerHeight,
   stiffenerThick |-> o.stiffenerThick, panelWidth |-> o.panelWidth]

\* abs((adjTD - centralDiff) / centralDiff)
relError(adjTD, centralDiff) ==
  Local(Div(Sub(adjTD, centralDiff), centralDiff), LAMBDA q : IF q = NaN THEN NaN ELSE Abs(q))

testStiffenerAreaRatio(o, epsilon, p_input, p_output, input_sens) ==
  LET Minus(oo) == [oo EXCEPT !.stiffenerThick = @ - Mul(p_input[0], epsilon),
                              !.stiffenerHeight = @ - Mul(p_input[1], epsilon),
                              !.stiffenerPitch = @ - Mul(p_input[2], epsilon),
                              !.panelThick = @ - Mul(p_input[3], epsilon)]
      Plus(oo)  == [oo EXCEPT !.stiffenerThick = @ + Mul(Mul(2 * FP, p_input[0]), epsilon),
                              !.stiffenerHeight = @ + Mul(Mul(2 * FP, p_input[1]), epsilon),
                              !.stiffenerPitch = @ + Mul(Mul(2 * FP, p_input[2]), epsilon),
                              !.panelThick = @ + Mul(Mul(2 * FP, p_input[3]), epsilon)]
  IN Local(Minus(o), LAMBDA o1 :
     Local(computeStiffenerAreaRatio(o1), LAMBDA f0 :
     Local(Plus(o1), LAMBDA o2 :
     Local(computeStiffenerAreaRatio(o2), LAMBDA f2 :
     Local(Minus(o2), LAMBDA o3 :
     Local(computeStiffenerAreaRatioSens(o3, p_output,
             [sthickSens |-> input_sens[0], sheightSens |-> input_sens[1],
              spitchSens |-> input_sens[2], pthickSens |-> input_sens[3]]), LAMBDA sens :
       LET centralDiff == Div(Div(Sub(f2, f0), 2 * FP), epsilon)
           adjTD == Mul(sens.sthickSens, p_input[0]) + Mul(sens.sheightSens, p_input[1])
                      + Mul(sens.spitchSens, p_input[2]) + Mul(sens.pthickSens, p_input[3])
       IN [obj    |-> o3,
           during |-> << DesignVariables(o1), DesignVariables(o2), DesignVariables(o3) >>,
           ret    |-> relError(adjTD, centralDiff)]))))))

testCriticalLocalAxialLoad(o, epsilon, p_input, p_output, input_sens, heap) ==
  LET x0 == [ii \in 0 .. 5 |->
               CASE ii = 0 -> Num(102412, 10000)
                 [] ii = 1 -> Num(54323, 10000)
                 [] ii = 2 -> o.stiffenerPitch
                 [] ii = 3 -> Num(24545, 10000)
                 [] ii = 4 -> Num(124332, 100000)
                 [] OTHER  -> Num(401324, 10000)]
      xm == [ii \in 0 .. 5 |-> x0[ii] - Mul(p_input[ii], epsilon)]
      xp == [ii \in 0 .. 5 |-> x0[ii] + Mul(p_input[ii], epsilon)]
  IN Local([o EXCEPT !.stiffenerPitch = x0[2] - Mul(p_input[2], epsilon)], LAMBDA o1 :
     Local(computeCriticalLocalAxialLoad(o1, xm[0], xm[1], xm[3], xm[4], xm[5]).ret, LAMBDA f0 :
     Local([o1 EXCEPT !.stiffenerPitch = x0[2] + Mul(p_input[2], epsilon)], LAMBDA o2 :
     Local(computeCriticalLocalAxialLoad(o2, xp[0], xp[1], xp[3], xp[4], xp[5]).ret, LAMBDA f2 :
     Local([o2 EXCEPT !.stiffenerPitch = x0[2]], LAMBDA o3 :
     Local(computeCriticalLocalAxialLoadSens(o3, p_output, x0[0], x0[1], x0[3], x0[4], x0[5],
             [D11sens |-> input_sens[0], D22sens |-> input_sens[1], rho_0sens |-> input_sens[2],
              xisens |-> input_sens[3], spitchsens |-> input_sens[4],
              zetasens |-> input_sens[5]], heap).sens, LAMBDA sens :
       LET centralDiff == Div(Div(Sub(f2, f0), 2 * FP), epsilon)
           adjTD == Add(Add(Add(Add(Add(Mul(sens.D11sens, p_input[0]),
                                        Mul(sens.D22sens, p_input[1])),
                                    Mul(sens.rho_0sens, p_input[2])),
                                Mul(sens.xisens, p_input[3])),
                            Mul(sens.spitchsens, p_input[4])),
                        Mul(sens.zetasens, p_input[5]))
       IN [obj    |-> o3,
           during |-> << DesignVariables(o1), DesignVariables(o2), DesignVariables(o3) >>,
           ret    |-> relError(adjTD, centralDiff)]))))))


\* ------------------------------------------------------------------------
\* The configurations and the inputs explored.
\* ------------------------------------------------------------------------

Vec(q) == [ii \in 0 .. Len(q) - 1 |-> q[ii + 1]]

\* the trained models a constitutive object may be given
AxialModel ==
  TACSGaussianProcessModel(2, 4, Vec(<<500, 200, 300, 1000, 0 - 300, 0 - 400, 100, 2000>>),
                           Vec(<<500, 0 - 250>>), 2 * FP)

ShearModel ==
  TACSGaussianProcessModel(2, 4, Vec(<<200, 0 - 300, 500, 400, 800, 600, 0 - 200, 1200>>),
                           Vec(<<300, 200>>), 2 * FP)

CripplingModel ==
  TACSGaussianProcessModel(2, 4, Vec(<<0 - 200, 400, 600, 300, 700, 0 - 500, 300, 900>>),
                           Vec(<<0 - 200, 400>>), 2 * FP)

\* a model trained on a single point
SinglePointModel ==
  TACSGaussianProcessModel(1, 4, Vec(<<300, 0 - 200, 400, 700>>), Vec(<<600>>), 2 * FP)

TrainedModels == {AxialModel, ShearModel, CripplingModel, SinglePointModel}

\* the numbers of training points and of parameters of the models whose
\* buffers are followed, and the routines followed
TrainingSizes == {1, 2}

ParameterCounts == {2, 4, 5}

InferenceRoutines ==
  {"predictMeanTestData", "predictMeanTestDataSens", "computeCriticalGlobalAxialLoad",
   "computeCriticalGlobalAxialLoadSens"}

\* the numbers of the design variables: all six active, or the panel length
\* and the panel width inactive
Numberings ==
  {[panelLengthNum |-> 0, stiffenerPitchNum |-> 1, panelThickNum |-> 2, stiffenerHeightNum |-> 3,
    stiffenerThickNum |-> 4, panelWidthNum |-> 5],
   [panelLengthNum |-> 0 - 1, stiffenerPitchNum |-> 0, panelThickNum |-> 1, stiffenerHeightNum |-> 2,
    stiffenerThickNum |-> 3, panelWidthNum |-> 0 - 1]}

InitialDVs ==
  [panelLength |-> 2 * FP, stiffenerPitch |-> FP, panelThick |-> FP, stiffenerHeight |-> FP,
   stiffenerThick |-> FP, panelWidth |-> Num(3, 2)]

Materials ==
  [flangeFraction |-> Num(1, 2), E1p |-> 10 * FP, E1s |-> 10 * FP, ksWeight |-> 2 * FP,
   numPanelPlies |-> 2,
   panelQMats |-> Vec(<<12 * FP, 3 * FP, 0, 10 * FP, 0, 4 * FP, 10 * FP, 3 * FP, 0, 12 * FP, 0, 4 * FP>>),
   panelPlyFracs |-> Vec(<<Num(3, 4), Num(1, 4)>>),
   numStiffenerPlies |-> 1,
   stiffenerQMats |-> Vec(<<12 * FP, 6 * FP, 0, 10 * FP, 0, FP>>),
   stiffenerPlyFracs |-> Vec(<<FP>>)]

\* the design vectors setDesignVars is called with, of length 6 >=
\* numDesignVars
DesignVectors ==
  {Vec(<<2 * FP, FP, FP, FP, FP, Num(3, 2)>>),
   Vec(<<Num(3, 2), Num(5, 4), Num(4, 5), Num(6, 5), Num(9, 10), 2 * FP>>)}

\* dvLen of a call of an accessor: shorter than numDesignVars, or not
DVLens == {3, 6}

\* what the caller's dvs, dvNums, lb and ub hold before an accessor fills them
PriorSlots == {[ii \in 0 .. 5 |-> 0 - 7 * FP]}

\* the bounds the base class reports for its design variables
BaseRanges ==
  {[lb |-> [panelLength |-> 0, stiffenerPitch |-> Num(1, 1000), panelThick |-> Num(1, 1000),
            stiffenerHeight |-> Num(1, 1000), stiffenerThick |-> Num(1, 1000)],
    ub |-> [panelLength |-> 1000 * FP, stiffenerPitch |-> 1000 * FP, panelThick |-> FP,
            stiffenerHeight |-> FP, stiffenerThick |-> FP]]}

\* the nondimensional-parameter and critical-load routines called on their
\* own: stiffness entries, lengths and nondimensional parameters
Arguments ==
  {[D11 |-> FP, D22 |-> Num(5, 6), D12 |-> Num(1, 4), D66 |-> Num(1, 3), a |-> 2 * FP,
    b |-> Num(3, 2), A66 |-> 4 * FP, A11 |-> 12 * FP, h |-> FP, delta |-> Num(3, 2),
    rho_0 |-> Num(5, 4), xi |-> FP, gamma |-> Num(4, 5), zeta |-> Num(3, 4), genPoiss |-> Num(21, 20)],
   [D11 |-> 2 * FP, D22 |-> FP, D12 |-> Num(1, 2), D66 |-> Num(2, 5), a |-> FP,
    b |-> FP, A66 |-> 3 * FP, A11 |-> 10 * FP, h |-> Num(1, 2), delta |-> Num(1, 2),
    rho_0 |-> Num(4, 5), xi |-> 2 * FP, gamma |-> 0, zeta |-> Num(6, 5), genPoiss |-> Num(11, 10)]}

\* a square, unstiffened, shear-free plate, and a plate whose first two
\* buckling modes give nearly the same load (rho_0 close to sqrt(2))
SquarePlate ==
  [D11 |-> FP, D22 |-> FP, D12 |-> Num(1, 4), D66 |-> Num(1, 3), a |-> FP,
   b |-> FP, A66 |-> 4 * FP, A11 |-> 12 * FP, h |-> FP, delta |-> 0,
   rho_0 |-> FP, xi |-> 0, gamma |-> 0, zeta |-> Num(3, 4), genPoiss |-> Num(21, 20)]

NearModeCrossing == [SquarePlate EXCEPT !.rho_0 = Num(7, 5), !.a = Num(7, 5)]

\* the plates the axial critical loads of the object o are computed for: the
\* two shear-free plates (xi = 0, outside the domain of log(xi)) only on the
\* closed-form path
AxialArguments(o) ==
  IF o.axialGP = NULL THEN Arguments \cup {SquarePlate, NearModeCrossing} ELSE Arguments

\* the upstream sensitivities
Upstreams == {FP, 0 - Num(1, 2)}

\* what a caller's output slot holds before a call
PriorValues == {0, Num(1, 4)}

\* what operator new hands over as the Xtestsens buffer
HeapContents == {Zeros(4), Arr4(7, 0 - 3, 5, 9)}

\* the test points of the trained models
TestPoints == {Arr4(400, 300, 100, 1500), Arr4(0 - 200, 0 - 500, 600, 300)}

\* x_test_sens as the caller hands it over
PriorXtestsens == {Zeros(4), Arr4(100, 200, 0 - 300, 400)}

\* the shell strains: two that load the panel, the second with a bending
\* curvature e[3], and the zero strain
ShellStrain(q) == [ii \in 0 .. NUM_STRESSES - 1 |-> IF ii < Len(q) THEN q[ii + 1] ELSE 0]

Strains ==
  {ShellStrain(<<0 - 500, 20, 200>>), ShellStrain(<<0 - 1000, 0, 300, 400>>),
   ShellStrain(<<0, 0, 0>>)}

\* the strain transforms: the stiffener strains equal to the in-plane shell
\* strains, and a stiffener whose centroid lies 0.5 off the mid-plane of the
\* shell (axial strain e[0] + z e[3], torsion -e[5] / 2, bending e[3])
SameFrame ==
  [i \in 0 .. 2 |-> [j \in 0 .. NUM_STRESSES - 1 |-> IF i = j THEN FP ELSE 0]]

OffsetStiffener ==
  [i \in 0 .. 2 |-> [j \in 0 .. NUM_STRESSES - 1 |->
     CASE i = 0 /\ j = 0 -> FP
       [] i = 0 /\ j = 3 -> 0 - Num(1, 2)
       [] i = 1 /\ j = 5 -> 0 - Num(1, 2)
       [] i = 2 /\ j = 3 -> FP
       [] OTHER -> 0]]

\* the strain transform, and what the material-failure collaborators return
Collaborators ==
  {[transform |-> T,
    panelFail |-> Num(1, 5), stiffenerFail |-> Num(1, 10),
    panelFailSens |-> [ii \in 0 .. NUM_STRESSES - 1 |-> IF ii < 3 THEN 0 - 2 * FP ELSE 0],
    stiffenerFailSens |-> [ii \in 0 .. NUM_STRESSES - 1 |-> IF ii < 3 THEN 0 - FP ELSE 0],
    panelFailDV |-> 0 - Num(1, 5), stiffenerFailDV |-> Vec(<<0 - Num(1, 20), 0 - Num(1, 10)>>),
    transformDV |-> Vec(<<Num(1, 50), Num(1, 25), Num(1, 100)>>),
    stiffenerStressDV |-> 0 - Num(3, 2)] : T \in {SameFrame, OffsetStiffener}}

Scales == {FP, 2 * FP}

\* dfdx as the caller hands it over, of length 6 >= numDesignVars
PriorDfdx == {Zeros(6), Vec(<<100, 200, 300, 400, 500, 600>>)}

\* the step of the central difference of a self-test
Epsilons == {Num(1, 10)}

\* what rand() / RAND_MAX gives a self-test: p_input and p_output
RandomDirections ==
  {[p_input |-> Vec(<<Num(1, 2), FP, Num(1, 5), Num(7, 10), Num(3, 10), Num(9, 10)>>),
    p_output |-> Num(1, 2)],
   [p_input |-> Vec(<<FP, Num(3, 10), Num(9, 10), Num(1, 10), Num(3, 5), Num(2, 5)>>),
    p_output |-> Num(4, 5)]}

\* what operator new hands over as the input_sens buffer of a self-test
HeapInputSens == {Zeros(6), Vec(<<7, 0 - 3, 5, 9, 0 - 2, 4>>)}

\* (xi, gamma) the shear-mode equations are solved for
ShearInputs ==
  {<<Num(1, 100), 0>>, <<Num(1, 2), 0>>, <<FP, 0>>, <<FP, FP>>, <<2 * FP, 5 * FP>>,
   <<5 * FP, 2 * FP>>, <<8 * FP, 0>>, <<8 * FP, FP>>, <<12 * FP, 0>>, <<12 * FP, FP>>,
   <<20 * FP, 0>>}


\* ------------------------------------------------------------------------
\* The state: the constitutive object, and the last call completed with its
\* arguments, what the caller's buffers held before and after it, and what it
\* returned.
\* ------------------------------------------------------------------------

VARIABLES obj, call

vars == << obj, call >>

Init ==
  /\ obj \in {TACSGPBladeStiffenedShellConstitutive(InitialDVs, nums, Materials, gps[1], gps[2], gps[3]) :
                nums \in Numberings,
                gps \in {<<NULL, NULL, NULL>>, <<AxialModel, ShearModel, CripplingModel>>,
                         <<AxialModel, NULL, NULL>>, <<NULL, ShearModel, NULL>>,
                         <<NULL, NULL, CripplingModel>>}}
  /\ call = [op |-> "none"]

\* the caller is between two calls
Idle == call.op = "none"

\* the caller is done with the results and the buffers of the last call; no
\* call follows the destruction of the object
Return ==
  /\ ~Idle
  /\ call.op # "~TACSGPBladeStiffenedShellConstitutive"
  /\ call' = [op |-> "none"]
  /\ UNCHANGED obj

SetDesignVars ==
  \E dvs \in DesignVectors, dvLen \in DVLens :
    /\ Idle
    /\ obj' = setDesignVarsWithin(obj, dvLen, dvs).obj
    /\ call' = [op |-> "setDesignVars", dvs |-> dvs, dvLen |-> dvLen,
                width |-> obj.panelWidth, ret |-> setDesignVarsWithin(obj, dvLen, dvs).ret]

\* getDesignVars, called after setDesignVars
GetDesignVars ==
  \E dvLen \in DVLens, pre \in PriorSlots :
    /\ call.op = "setDesignVars"
    /\ call' = Local(getDesignVars(obj, dvLen, pre), LAMBDA r :
                 [op |-> "getDesignVars", dvLen |-> dvLen, pre |-> pre, post |-> r.dvs,
                  ret |-> r.ret, set |-> [dvs |-> call.dvs, dvLen |-> call.dvLen]])
    /\ UNCHANGED obj

GetDesignVarNums ==
  \E dvLen \in DVLens, pre \in PriorSlots :
    /\ Idle
    /\ call' = Local(getDesignVarNums(obj, dvLen, pre), LAMBDA r :
                 [op |-> "getDesignVarNums", dvLen |-> dvLen, pre |-> pre, post |-> r.dvNums,
                  ret |-> r.ret])
    /\ UNCHANGED obj

GetDesignVarRange ==
  \E dvLen \in DVLens, pre \in PriorSlots, base \in BaseRanges :
    /\ Idle
    /\ call' = Local(getDesignVarRange(obj, dvLen, pre, pre, base), LAMBDA r :
                 [op |-> "getDesignVarRange", dvLen |-> dvLen, pre |-> pre, lb |-> r.lb,
                  ub |-> r.ub, ret |-> r.ret])
    /\ UNCHANGED obj

PredictMeanTestData ==
  \E gp \in TrainedModels, Xtest \in TestPoints :
    /\ Idle
    /\ call' = [op |-> "predictMeanTestData", gp |-> gp, Xtest |-> Xtest,
                ret |-> predictMeanTestData(gp, Xtest)]
    /\ UNCHANGED obj

PredictMeanTestDataSens ==
  \E gp \in TrainedModels, Ysens \in Upstreams, Xtest \in TestPoints, pre \in PriorXtestsens :
    /\ Idle
    /\ call' = Local(predictMeanTestDataSens(gp, Ysens, Xtest, pre), LAMBDA r :
                 [op |-> "predictMeanTestDataSens", gp |-> gp, Ysens |-> Ysens, Xtest |-> Xtest,
                  pre |-> pre, post |-> r.Xtestsens, ret |-> r.Ytest])
    /\ UNCHANGED obj

\* kernelSens called on its own, with a training point of a trained model
KernelSens ==
  \E gp \in TrainedModels, itrain \in 0 .. 1, ksens \in Upstreams, Xtest \in TestPoints,
     pre \in PriorXtestsens :
    /\ Idle
    /\ itrain < gp.n_train
    /\ call' = [op |-> "kernelSens", ks |-> gp.ks, ksens |-> ksens, Xtest |-> Xtest,
                Xtrain |-> loc_Xtrain(gp, itrain), pre |-> pre,
                post |-> kernelSens(gp.ks, ksens, Xtest, loc_Xtrain(gp, itrain), pre)]
    /\ UNCHANGED obj

\* the slots a caller hands to a sensitivity routine, all holding v
Slots(names, v) == [n \in names |-> v]

\* a sensitivity routine of the nondimensional parameters called on its own
NondimSensCall(op, up, x, pre, post, ret) ==
  /\ Idle
  /\ call' = [op |-> op, up |-> up, x |-> x, pre |-> pre, post |-> post, ret |-> ret]
  /\ UNCHANGED obj

ComputeAffineAspectRatioSens ==
  \E up \in Upstreams, x \in Arguments, v \in PriorValues :
    LET pre == Slots({"D11sens", "D22sens", "asens", "bsens"}, v)
    IN NondimSensCall("computeAffineAspectRatioSens", up, x, pre,
                      computeAffineAspectRatioSens(up, x.D11, x.D22, x.a, x.b, pre),
                      computeAffineAspectRatio(x.D11, x.D22, x.a, x.b))

ComputeGeneralizedRigiditySens ==
  \E up \in Upstreams, x \in Arguments, v \in PriorValues :
    LET pre == Slots({"D11sens", "D22sens", "D12sens", "D66sens"}, v)
    IN NondimSensCall("computeGeneralizedRigiditySens", up, x, pre,
                      computeGeneralizedRigiditySens(up, x.D11, x.D22, x.D12, x.D66, pre),
                      computeGeneralizedRigidity(x.D11, x.D22, x.D12, x.D66))

ComputeGeneralizedPoissonsRatioSens ==
  \E up \in Upstreams, x \in Arguments, v \in PriorValues :
    LET pre == Slots({"D12sens", "D66sens"}, v)
    IN NondimSensCall("computeGeneralizedPoissonsRatioSens", up, x, pre,
                      computeGeneralizedPoissonsRatioSens(up, x.D12, x.D66, pre),
                      computeGeneralizedPoissonsRatio(x.D12, x.D66))

ComputeStiffenerAreaRatioSens ==
  \E up \in Upstreams, x \in Arguments, v \in PriorValues :
    LET pre == Slots({"sthickSens", "sheightSens", "spitchSens", "pthickSens"}, v)
    IN NondimSensCall("computeStiffenerAreaRatioSens", up, x, pre,
                      computeStiffenerAreaRatioSens(obj, up, pre),
                      computeStiffenerAreaRatio(obj))

ComputeStiffenerStiffnessRatioSens ==
  \E up \in Upstreams, x \in Arguments, v \in PriorValues :
    LET pre == Slots({"D11sens", "sthickSens", "sheightSens", "spitchSens"}, v)
    IN NondimSensCall("computeStiffenerStiffnessRatioSens", up, x, pre,
                      computeStiffenerStiffnessRatioSens(obj, up, x.D11, pre),
                      computeStiffenerStiffnessRatio(obj, x.D11))

ComputeTransverseShearParameterSens ==
  \E up \in Upstreams, x \in Arguments, v \in PriorValues :
    LET pre == Slots({"A66sens", "A11sens", "bsens", "hsens"}, v)
    IN NondimSensCall("computeTransverseShearParameterSens", up, x, pre,
                      computeTransverseShearParameterSens(up, x.A66, x.A11, x.b, x.h, pre),
                      computeTransverseShearParameter(x.A66, x.A11, x.b, x.h))

NondimShearParams ==
  \E in \in ShearInputs :
    /\ Idle
    /\ call' = Local(nondimShearParams(in[1], in[2]), LAMBDA r :
                 [op |-> "nondimShearParams", xi |-> in[1], gamma |-> in[2],
                  returned |-> r.left, lam1bar |-> r.lam1bar, lam2bar |-> r.lam2bar,
                  residual |-> r.residual, iters |-> r.iters, failure |-> r.failure])
    /\ UNCHANGED obj


NondimShearParamsSens ==
  \E in \in ShearInputs :
    /\ Idle
    /\ call' = Local(nondimShearParamsSens(in[1], in[2]), LAMBDA r :
                 [op |-> "nondimShearParamsSens", xi |-> in[1], gamma |-> in[2],
                  returned |-> r.left, lam1bar |-> r.lam1bar, lam2bar |-> r.lam2bar,
                  dl1xi |-> r.dl1xi, dl1gamma |-> r.dl1gamma, dl2xi |-> r.dl2xi,
                  dl2gamma |-> r.dl2gamma, residual |-> r.residual])
    /\ UNCHANGED obj


CriticalLoadOps ==
  {"computeCriticalGlobalAxialLoad", "computeCriticalLocalAxialLoad",
   "computeCriticalGlobalShearLoad", "computeCriticalLocalShearLoad",
   "computeStiffenerCripplingLoad"}

\* the trained model of the criterion of the routine op, as the object holds
\* it, and its name
CriterionModel(o, op) ==
  CASE op \in {"computeCriticalGlobalAxialLoad", "computeCriticalGlobalAxialLoadSens",
               "computeCriticalLocalAxialLoad", "computeCriticalLocalAxialLoadSens"} ->
         [name |-> "axialGP", gp |-> o.axialGP]
    [] op \in {"computeCriticalGlobalShearLoad", "computeCriticalGlobalShearLoadSens",
               "computeCriticalLocalShearLoad", "computeCriticalLocalShearLoadSens"} ->
         [name |-> "shearGP", gp |-> o.shearGP]
    [] OTHER -> [name |-> "cripplingGP", gp |-> o.cripplingGP]

\* The new[] and delete[] a critical-load routine executes, nested calls
\* included. On the surrogate path the forward routine allocates Xtest, the
\* sensitivity routine Xtest and Xtestsens, and kernelSens allocates and
\* releases one jacobian per training point; the closed-form path keeps its
\* arrays on the stack.
CriticalLoadBuffers(op, o) ==
  LET gp == CriterionModel(o, op).gp
  IN IF gp = NULL THEN [allocated |-> 0, released |-> 0]
     ELSE IF op \in CriticalLoadOps THEN [allocated |-> 1, released |-> 0]
     ELSE [allocated |-> 2 + gp.n_train, released |-> gp.n_train]

\* The new[] and delete[] of the failure routines: those of the critical-load
\* routines they call, and the seven work buffers of addFailureDVSens.
FailureBuffers(op, o) ==
  LET of(ops) == [allocated |-> Sum([k \in 0 .. Len(ops) - 1 |-> CriticalLoadBuffers(ops[k + 1], o).allocated], Len(ops)),
                  released  |-> Sum([k \in 0 .. Len(ops) - 1 |-> CriticalLoadBuffers(ops[k + 1], o).released], Len(ops))]
      forward == << "computeCriticalGlobalAxialLoad", "computeCriticalGlobalShearLoad",
                    "computeCriticalLocalAxialLoad", "computeCriticalLocalShearLoad",
                    "computeStiffenerCripplingLoad" >>
      sens    == << "computeCriticalGlobalAxialLoadSens", "computeCriticalGlobalShearLoadSens",
                    "computeCriticalLocalAxialLoadSens", "computeCriticalLocalShearLoadSens",
                    "computeStiffenerCripplingLoadSens" >>
      own     == Len(<< "DVsens", "Dpsens", "Apsens", "NDsens", "stiffNDsens", "Dssens", "Assens" >>)
  IN IF op = "addFailureDVSens"
     THEN [allocated |-> own + of(forward \o forward \o sens).allocated,
           released  |-> of(forward \o forward \o sens).released]
     ELSE of(forward)

\* the buffers allocated in a call and not released when it returns
LiveBuffers(b) == b.allocated - b.released

\* a critical-load routine called on its own
CriticalLoadCall(op, x, r) ==
  /\ Idle
  /\ call' = Local(r, LAMBDA c :
               [op |-> op, x |-> x, ret |-> c.ret, path |-> c.path, deref |-> c.deref,
                live |-> LiveBuffers(CriticalLoadBuffers(op, obj))])
  /\ UNCHANGED obj

ComputeCriticalGlobalAxialLoad ==
  \E x \in AxialArguments(obj) :
    CriticalLoadCall("computeCriticalGlobalAxialLoad", x,
      computeCriticalGlobalAxialLoad(obj, x.D11, x.D22, x.b, x.delta, x.rho_0, x.xi, x.gamma, x.zeta))

ComputeCriticalLocalAxialLoad ==
  \E x \in AxialArguments(obj) :
    CriticalLoadCall("computeCriticalLocalAxialLoad", x,
      computeCriticalLocalAxialLoad(obj, x.D11, x.D22, x.rho_0, x.xi, x.zeta))

ComputeCriticalGlobalShearLoad ==
  \E x \in Arguments :
    CriticalLoadCall("computeCriticalGlobalShearLoad", x,
      computeCriticalGlobalShearLoad(obj, x.D11, x.D22, x.b, x.xi, x.rho_0, x.gamma, x.zeta))

ComputeCriticalLocalShearLoad ==
  \E x \in Arguments :
    CriticalLoadCall("computeCriticalLocalShearLoad", x,
      computeCriticalLocalShearLoad(obj, x.D11, x.D22, x.xi, x.rho_0, x.zeta))

ComputeStiffenerCripplingLoad ==
  \E x \in Arguments :
    CriticalLoadCall("computeStiffenerCripplingLoad", x,
      computeStiffenerCripplingLoad(obj, x.D11, x.D22, x.xi, x.rho_0, x.genPoiss, x.zeta))

\* What the accumulators handed to a critical-load sensitivity routine hold:
\* a value the caller has set them all to (first call, nth = 1), or what the
\* previous, identical call on zero accumulators has left in them (nth = 2).
PriorAccumulators(op, up, x, names, nth) ==
  IF nth = 1 THEN IF Idle THEN {Slots(names, v) : v \in PriorValues} ELSE {}
  ELSE IF /\ call.op = op
          /\ call.up = up
          /\ call.x = x
          /\ call.nth = 1
          /\ call.pre = Slots(names, 0)
       THEN {call.post}
       ELSE {}

CriticalLoadSensCall(op, up, x, pre, heap, nth, r) ==
  /\ call' = Local(r, LAMBDA c :
               [op |-> op, up |-> up, x |-> x, pre |-> pre, heap |-> heap, nth |-> nth,
                post |-> c.sens, ret |-> c.ret, path |-> c.path, deref |-> c.deref,
                live |-> LiveBuffers(CriticalLoadBuffers(op, obj))])
  /\ UNCHANGED obj

ComputeCriticalGlobalAxialLoadSens ==
  \E up \in Upstreams, x \in Arguments, heap \in HeapContents, nth \in 1 .. 2 :
    \E pre \in PriorAccumulators("computeCriticalGlobalAxialLoadSens", up, x,
                 {"D11sens", "D22sens", "bsens", "deltasens", "rho_0sens", "xisens", "gammasens",
                  "zetasens"}, nth) :
      CriticalLoadSensCall("computeCriticalGlobalAxialLoadSens", up, x, pre, heap, nth,
        computeCriticalGlobalAxialLoadSens(obj, up, x.D11, x.D22, x.b, x.delta, x.rho_0, x.xi,
                                           x.gamma, x.zeta, pre, heap))

ComputeCriticalLocalAxialLoadSens ==
  \E up \in Upstreams, x \in Arguments, heap \in HeapContents, nth \in 1 .. 2 :
    \E pre \in PriorAccumulators("computeCriticalLocalAxialLoadSens", up, x,
                 {"D11sens", "D22sens", "rho_0sens", "xisens", "spitchsens", "zetasens"}, nth) :
      CriticalLoadSensCall("computeCriticalLocalAxialLoadSens", up, x, pre, heap, nth,
        computeCriticalLocalAxialLoadSens(obj, up, x.D11, x.D22, x.rho_0, x.xi, x.zeta, pre, heap))

ComputeCriticalGlobalShearLoadSens ==
  \E up \in Upstreams, x \in Arguments, heap \in HeapContents, nth \in 1 .. 2 :
    \E pre \in PriorAccumulators("computeCriticalGlobalShearLoadSens", up, x,
                 {"D11sens", "D22sens", "bsens", "xisens", "rho_0sens", "gammasens", "zetasens"},
                 nth) :
      CriticalLoadSensCall("computeCriticalGlobalShearLoadSens", up, x, pre, heap, nth,
        computeCriticalGlobalShearLoadSens(obj, up, x.D11, x.D22, x.b, x.xi, x.rho_0, x.gamma,
                                           x.zeta, pre, heap))

ComputeCriticalLocalShearLoadSens ==
  \E up \in Upstreams, x \in Arguments, heap \in HeapContents, nth \in 1 .. 2 :
    \E pre \in PriorAccumulators("computeCriticalLocalShearLoadSens", up, x,
                 {"D11sens", "D22sens", "spitchsens", "xisens", "rho_0sens", "zetasens"}, nth) :
      CriticalLoadSensCall("computeCriticalLocalShearLoadSens", up, x, pre, heap, nth,
        computeCriticalLocalShearLoadSens(obj, up, x.D11, x.D22, x.xi, x.rho_0, x.zeta, pre, heap))

ComputeStiffenerCripplingLoadSens ==
  \E up \in Upstreams, x \in Arguments, heap \in HeapContents, nth \in 1 .. 2 :
    \E pre \in PriorAccumulators("computeStiffenerCripplingLoadSens", up, x,
                 {"D11sens", "D22sens", "sheightsens", "xisens", "rho_0sens", "genPoiss_sens",
                  "zetasens"}, nth) :
      CriticalLoadSensCall("computeStiffenerCripplingLoadSens", up, x, pre, heap, nth,
        computeStiffenerCripplingLoadSens(obj, up, x.D11, x.D22, x.xi, x.rho_0, x.genPoiss,
                                          x.zeta, pre, heap))

ComputeFailureValues ==
  \E e \in Strains, ext \in Collaborators :
    /\ Idle
    /\ call' = Local(computeFailureValues(obj, e, ext), LAMBDA r :
                 [op |-> "computeFailureValues", e |-> e, ext |-> ext, fails |-> r.fails,
                  ret |-> r.ret,
                  live |-> LiveBuffers(FailureBuffers("computeFailureValues", obj))])
    /\ UNCHANGED obj

EvalFailureStrainSens ==
  \E e \in Strains, ext \in Collaborators :
    /\ Idle
    /\ call' = Local(evalFailureStrainSens(obj, e, ext), LAMBDA r :
                 [op |-> "evalFailureStrainSens", e |-> e, ext |-> ext, fails |-> r.fails,
                  dKSdf |-> r.dKSdf, chain |-> r.chain, weighted |-> r.weighted,
                  sens |-> r.sens, ret |-> r.ret,
                  live |-> LiveBuffers(FailureBuffers("evalFailureStrainSens", obj))])
    /\ UNCHANGED obj

AddFailureDVSens ==
  \E scale \in Scales, e \in Strains, ext \in Collaborators, pre \in PriorDfdx,
     heap \in HeapContents :
    /\ Idle
    /\ call' = Local(addFailureDVSens(obj, scale, e, ext, pre, heap), LAMBDA r :
                 [op |-> "addFailureDVSens", scale |-> scale, e |-> e, ext |-> ext,
                  pre |-> pre, heap |-> heap, post |-> r.dfdx, writes |-> r.writes,
                  fails |-> r.fails, dKSdf |-> r.dKSdf, chain |-> r.chain,
                  weighted |-> r.weighted,
                  B1 |-> r.B1, B2 |-> r.B2, B3 |-> r.B3, B4 |-> r.B4, B5 |-> r.B5,
                  live |-> LiveBuffers(FailureBuffers("addFailureDVSens", obj))])
    /\ UNCHANGED obj

\* the caller constructs a trained model from two arrays of its own
ConstructModel ==
  \E d \in TrainedModels :
    /\ Idle
    /\ call' = Local(newTACSGaussianProcessModel(d.n_train, d.n_param, "Xtrain", "alpha", d.ks,
                                                 [a \in {"Xtrain", "alpha"} |-> d[a]]),
                     LAMBDA r : [op |-> "TACSGaussianProcessModel", data |-> d,
                                 this |-> r.this, mem |-> r.mem])
    /\ UNCHANGED obj

\* the caller reuses its two arrays for the data of another model
CallerOverwrites ==
  \E d \in TrainedModels :
    /\ call.op = "TACSGaussianProcessModel"
    /\ d # call.data
    /\ call' = [call EXCEPT !.op = "overwrite",
                            !.mem = [a \in DOMAIN call.mem |->
                                       IF a \in {"Xtrain", "alpha"} THEN d[a] ELSE call.mem[a]]]
    /\ UNCHANGED obj

\* a prediction of the model the caller has constructed
PredictOfConstructed ==
  \E Ysens \in Upstreams, Xtest \in TestPoints, pre \in PriorXtestsens :
    /\ call.op \in {"TACSGaussianProcessModel", "overwrite"}
    /\ call' = Local(Members(call.this, call.mem), LAMBDA gp :
               Local(predictMeanTestDataSens(gp, Ysens, Xtest, pre), LAMBDA r :
                 [op |-> "predictMeanTestDataSens", gp |-> gp, Ysens |-> Ysens, Xtest |-> Xtest,
                  pre |-> pre, post |-> r.Xtestsens, ret |-> r.Ytest,
                  mean |-> predictMeanTestData(gp, Xtest),
                  data |-> call.data, this |-> call.this, mem |-> call.mem]))
    /\ UNCHANGED obj

\* the object is destroyed
Destructor ==
  /\ Idle
  /\ call' = Local(destroyTACSGPBladeStiffenedShellConstitutive(obj), LAMBDA r :
               [op |-> "~TACSGPBladeStiffenedShellConstitutive", released |-> r.released,
                attached |-> {n \in {"axialGP", "shearGP", "cripplingGP"} : obj[n] # NULL}])
  /\ obj' = destroyTACSGPBladeStiffenedShellConstitutive(obj).obj

\* a self-test: the object is what the self-test leaves
SelfTestCall(op, epsilon, rnd, input_sens, r) ==
  /\ Idle
  /\ call' = Local(r, LAMBDA c :
               [op |-> op, epsilon |-> epsilon, rnd |-> rnd, input_sens |-> input_sens,
                entry |-> DesignVariables(obj), during |-> c.during, ret |-> c.ret])
  /\ obj' = r.obj

TestStiffenerAreaRatio ==
  \E epsilon \in Epsilons, rnd \in RandomDirections, input_sens \in HeapInputSens :
    SelfTestCall("testStiffenerAreaRatio", epsilon, rnd, input_sens,
                 testStiffenerAreaRatio(obj, epsilon, rnd.p_input, rnd.p_output, input_sens))

TestCriticalLocalAxialLoad ==
  \E epsilon \in Epsilons, rnd \in RandomDirections, input_sens \in HeapInputSens,
     heap \in HeapContents :
    SelfTestCall("testCriticalLocalAxialLoad", epsilon, rnd, input_sens,
                 testCriticalLocalAxialLoad(obj, epsilon, rnd.p_input, rnd.p_output,
                                            input_sens, heap))

\* a routine of the surrogate path called with a model of n_train points of
\* n_param parameters: the entries of the buffers it touches
SurrogateInference ==
  \E routine \in InferenceRoutines, n_train \in TrainingSizes, n_param \in ParameterCounts :
    LET sens   == routine \in {"predictMeanTestDataSens", "computeCriticalGlobalAxialLoadSens"}
        access == IF routine \in {"predictMeanTestData", "predictMeanTestDataSens"}
                  THEN predictMeanAccess(n_train, n_param, sens)
                  ELSE criticalLoadAccess(n_train, n_param, sens)
    IN \E outcome \in Outcomes(access) :
         /\ Idle
         /\ call' = [op |-> "surrogateInference", routine |-> routine, n_train |-> n_train,
                     n_param |-> n_param, access |-> access, outcome |-> outcome]
         /\ UNCHANGED obj

Next ==
  \/ Return
  \/ SetDesignVars
  \/ GetDesignVars
  \/ GetDesignVarNums
  \/ GetDesignVarRange
  \/ PredictMeanTestData
  \/ PredictMeanTestDataSens
  \/ KernelSens
  \/ SurrogateInference
  \/ ComputeAffineAspectRatioSens
  \/ ComputeGeneralizedRigiditySens
  \/ ComputeGeneralizedPoissonsRatioSens
  \/ ComputeStiffenerAreaRatioSens
  \/ ComputeStiffenerStiffnessRatioSens
  \/ ComputeTransverseShearParameterSens
  \/ NondimShearParams
  \/ NondimShearParamsSens
  \/ ComputeCriticalGlobalAxialLoad
  \/ ComputeCriticalLocalAxialLoad
  \/ ComputeCriticalGlobalShearLoad
  \/ ComputeCriticalLocalShearLoad
  \/ ComputeStiffenerCripplingLoad
  \/ ComputeCriticalGlobalAxialLoadSens
  \/ ComputeCriticalLocalAxialLoadSens
  \/ ComputeCriticalGlobalShearLoadSens
  \/ ComputeCriticalLocalShearLoadSens
  \/ ComputeStiffenerCripplingLoadSens
  \/ ComputeFailureValues
  \/ EvalFailureStrainSens
  \/ AddFailureDVSens
  \/ ConstructModel
  \/ CallerOverwrites
  \/ PredictOfConstructed
  \/ TestStiffenerAreaRatio
  \/ Destructor
  \/ TestCriticalLocalAxialLoad

Spec == Init /\ [][Next]_vars


\* ------------------------------------------------------------------------
\* The properties.  Each is stated over the last completed call.
\* ------------------------------------------------------------------------

\* sum_i Ysens * alpha[i] * dkernel(Xtest, Xtrain[i])/dXtest[j], j = 0 ..
\* n_param - 1: what the loop over the training points adds to zeros
KernelSensSum(gp, Ysens, Xtest) == PredictMeanSensLoop(gp, Ysens, Xtest, Zeros(4), 0)

\* C1: predictMeanTestDataSens adds into x_test_sens and never overwrites it:
\* for any prior content c, after the call x_test_sens[j] = c[j] + Ysens *
\* sum_i alpha[i] * dkernel(x_test, Xtrain[i])/dx_test[j] for every j.
C1_AddsIntoXtestsens ==
  call.op = "predictMeanTestDataSens" =>
    \A j \in 0 .. call.gp.n_param - 1 :
      call.post[j] = call.pre[j] + KernelSensSum(call.gp, call.Ysens, call.Xtest)[j]

NondimSensOps ==
  {"computeAffineAspectRatioSens", "computeGeneralizedRigiditySens",
   "computeGeneralizedPoissonsRatioSens", "computeStiffenerAreaRatioSens",
   "computeStiffenerStiffnessRatioSens", "computeTransverseShearParameterSens"}

\* the sensitivity routine named op of the nondimensional parameters, called
\* with the upstream sensitivity up, the arguments x and the slots acc
NondimSens(op, o, up, x, acc) ==
  CASE op = "computeAffineAspectRatioSens" ->
         computeAffineAspectRatioSens(up, x.D11, x.D22, x.a, x.b, acc)
    [] op = "computeGeneralizedRigiditySens" ->
         computeGeneralizedRigiditySens(up, x.D11, x.D22, x.D12, x.D66, acc)
    [] op = "computeGeneralizedPoissonsRatioSens" ->
         computeGeneralizedPoissonsRatioSens(up, x.D12, x.D66, acc)
    [] op = "computeStiffenerAreaRatioSens" ->
         computeStiffenerAreaRatioSens(o, up, acc)
    [] op = "computeStiffenerStiffnessRatioSens" ->
         computeStiffenerStiffnessRatioSens(o, up, x.D11, acc)
    [] op = "computeTransverseShearParameterSens" ->
         computeTransverseShearParameterSens(up, x.A66, x.A11, x.b, x.h, acc)

\* C2: every sensitivity routine of the nondimensional parameter library adds
\* its contribution into each caller-supplied slot: the slot after the call
\* is the slot before the call plus a term that does not depend on the prior
\* value (the term is what the routine leaves in a slot that held zero).
C2_NondimSensAddsIntoSlots ==
  call.op \in NondimSensOps =>
    LET term == NondimSens(call.op, obj, call.up, call.x, Slots(DOMAIN call.pre, 0))
    IN \A s \in DOMAIN call.pre : call.post[s] = call.pre[s] + term[s]

CriticalLoadSensOps ==
  {"computeCriticalGlobalAxialLoadSens", "computeCriticalLocalAxialLoadSens",
   "computeCriticalGlobalShearLoadSens", "computeCriticalLocalShearLoadSens",
   "computeStiffenerCripplingLoadSens"}

\* C3: a critical-load sensitivity routine invoked twice with the same
\* upstream scalar and inputs on zero-initialized accumulators leaves every
\* accumulator at exactly twice its single-call value, on the surrogate and
\* on the closed-form path (call.pre of the second call is what the first
\* call has left).
C3_TwiceIsDouble ==
  (call.op \in CriticalLoadSensOps /\ call.nth = 2) =>
    \A s \in DOMAIN call.pre : call.post[s] = 2 * call.pre[s]

\* the entrywise sum of two records of buffers
BufAdd(A, B) == [f \in DOMAIN A |-> [ii \in DOMAIN A[f] |-> A[f][ii] + B[f][ii]]]

\* the sum of the values of the writes w[1 .. n] made at the index idx
RECURSIVE SumWrites(_, _, _)
SumWrites(w, idx, n) ==
  IF n = 0 THEN 0
  ELSE SumWrites(w, idx, n - 1) + (IF w[n].idx = idx THEN w[n].val ELSE 0)

\* C4: addFailureDVSens composes the contributions by addition only: dfdx on
\* return is the prior dfdx plus what has been written, and what global
\* buckling has left in the buffers (for D11, D22, xi, rho0, the panel width)
\* is still in them after the local-buckling step and after the
\* back-propagation of the nondimensional parameters, each of which adds what
\* it would leave in zeroed buffers.
C4_ComposedByAdditionOnly ==
  call.op = "addFailureDVSens" =>
    LET C == DVSensStates(obj, call.scale, call.e, call.ext)
    IN /\ \A ii \in DOMAIN call.post :
            call.post[ii] = call.pre[ii] + SumWrites(call.writes, ii, Len(call.writes))
       /\ call.B2 = BufAdd(call.B1, LocalStage(obj, C, ZeroBuffers, call.heap))
       /\ call.B3 = BufAdd(call.B2, PanelNDStage(obj, C, call.B2.ND, ZeroBuffers))

\* C5: in evalFailureStrainSens and in addFailureDVSens the derivatives of
\* the envelope of a criterion are multiplied by the KS weight of that
\* criterion, with the index of the forward pass: 2 for global buckling, 3
\* for local buckling (and in addFailureDVSens 0 for the panel material and
\* 1 for the stiffener material).
C5_OwnKSWeight ==
  call.op \in {"evalFailureStrainSens", "addFailureDVSens"} =>
    /\ call.weighted.N1GlobalSens  = Mul(call.chain.N1GlobalSens, call.dKSdf[2])
    /\ call.weighted.N12GlobalSens = Mul(call.chain.N12GlobalSens, call.dKSdf[2])
    /\ call.weighted.N1LocalSens   = Mul(call.chain.N1LocalSens, call.dKSdf[3])
    /\ call.weighted.N12LocalSens  = Mul(call.chain.N12LocalSens, call.dKSdf[3])
    /\ call.op = "addFailureDVSens" =>
         \A k \in DOMAIN call.writes :
           /\ call.writes[k].by = "addPanelFailureDVSens" =>
                call.writes[k].val = Mul(Mul(call.scale, call.dKSdf[0]), call.ext.panelFailDV)
           /\ call.writes[k].by = "addStiffenerFailureDVSens" =>
                call.writes[k].val \in {Mul(Mul(call.scale, call.dKSdf[1]), call.ext.stiffenerFailDV[d]) :
                                          d \in 0 .. 1}

\* the entries of the DVsens buffer: the design variable, whether it is
\* active, and its index in dfdx
GeometricDVs(o) ==
  << [num |-> o.panelLengthNum, loc |-> o.panelLengthLocalNum],
     [num |-> o.stiffenerPitchNum, loc |-> o.stiffenerPitchLocalNum],
     [num |-> o.panelThickNum, loc |-> o.panelThickLocalNum],
     [num |-> o.stiffenerHeightNum, loc |-> o.stiffenerHeightLocalNum],
     [num |-> o.stiffenerThickNum, loc |-> o.stiffenerThickLocalNum],
     [num |-> o.panelWidthNum, loc |-> o.panelWidthLocalNum] >>

\* scale * DVsens[d] summed over the active design variables d of index idx,
\* d = 0 .. n - 1
RECURSIVE ScatteredDVsens(_, _, _, _, _)
ScatteredDVsens(o, scale, DV, idx, n) ==
  IF n = 0 THEN 0
  ELSE ScatteredDVsens(o, scale, DV, idx, n - 1)
         + (IF GeometricDVs(o)[n].num >= 0 /\ GeometricDVs(o)[n].loc = idx
            THEN Mul(scale, DV[n - 1]) ELSE 0)

\* C6: in addFailureDVSens every sensitivity accumulated in the DVsens buffer
\* is added, multiplied by scale, into dfdx at the index of its design
\* variable before the call returns, for every active design variable: dfdx
\* on return is the prior dfdx, plus the writes made on the way, plus scale *
\* DVsens.
C6_DVsensReachesDfdx ==
  call.op = "addFailureDVSens" =>
    \A ii \in DOMAIN call.post :
      call.post[ii] = call.pre[ii] + SumWrites(call.writes, ii, Len(call.writes))
                        + ScatteredDVsens(obj, call.scale, call.B5.DV, ii, 6)

\* C7: every write of addFailureDVSens into dfdx lands in 0 ..
\* numDesignVars - 1, a derivative with respect to a panel design variable
\* relative to the start of the panel sub-block, a derivative with respect to
\* a stiffener design variable (that of the stiffener stress of the crippling
\* ratio included) relative to the start of the stiffener sub-block.
C7_WritesRespectSubBlocks ==
  call.op = "addFailureDVSens" =>
    \A k \in DOMAIN call.writes :
      LET w == call.writes[k]
      IN /\ w.idx \in 0 .. obj.numDesignVars - 1
         /\ w.wrt = "panelThick" => w.idx = obj.panelDVStartNum
         /\ w.wrt = "stiffenerHeight" => w.idx = obj.stiffenerDVStartNum
         /\ w.wrt = "stiffenerThick" => w.idx = obj.stiffenerDVStartNum + 1

\* the forward routine of the sensitivity routine op on the arguments x
ForwardOf(op, o, x) ==
  CASE op = "computeCriticalGlobalAxialLoadSens" ->
         computeCriticalGlobalAxialLoad(o, x.D11, x.D22, x.b, x.delta, x.rho_0, x.xi, x.gamma, x.zeta)
    [] op = "computeCriticalLocalAxialLoadSens" ->
         computeCriticalLocalAxialLoad(o, x.D11, x.D22, x.rho_0, x.xi, x.zeta)
    [] op = "computeCriticalGlobalShearLoadSens" ->
         computeCriticalGlobalShearLoad(o, x.D11, x.D22, x.b, x.xi, x.rho_0, x.gamma, x.zeta)
    [] op = "computeCriticalLocalShearLoadSens" ->
         computeCriticalLocalShearLoad(o, x.D11, x.D22, x.xi, x.rho_0, x.zeta)
    [] op = "computeStiffenerCripplingLoadSens" ->
         computeStiffenerCripplingLoad(o, x.D11, x.D22, x.xi, x.rho_0, x.genPoiss, x.zeta)

\* C8: a missing surrogate model is a valid configuration: each of the five
\* forward routines and its sensitivity routine take the surrogate path
\* exactly when the model of that criterion is attached (the axial model for
\* global and local axial, the shear model for global and local shear, the
\* crippling model for crippling) and the closed-form path otherwise, the
\* sensitivity routine takes the path and returns the load of the forward
\* routine, and no absent model is dereferenced.
C8_PathFollowsAttachedModel ==
  call.op \in CriticalLoadOps \cup CriticalLoadSensOps =>
    LET m == CriterionModel(obj, call.op)
    IN /\ call.path = (IF m.gp # NULL THEN "GP" ELSE "CF")
       /\ call.deref = (IF m.gp # NULL THEN {m.name} ELSE {})
       /\ \A n \in call.deref : obj[n] # NULL
       /\ call.op \in CriticalLoadSensOps =>
            /\ call.path = ForwardOf(call.op, obj, call.x).path
            /\ call.ret = ForwardOf(call.op, obj, call.x).ret

\* C8, its case: a sensitivity routine of a shear criterion has taken the
\* closed-form path on an object without a shear model but with an axial
\* model
C8_ShearClosedFormBesideAxialModel ==
  /\ call.op \in {"computeCriticalGlobalShearLoadSens", "computeCriticalLocalShearLoadSens"}
  /\ obj.shearGP = NULL
  /\ obj.axialGP # NULL
  /\ call.path = "CF"
  /\ call.deref = {}
  /\ \E s \in DOMAIN call.post : call.post[s] # call.pre[s]

\* the residual at the exit of the Newton loop is within the tolerance
Converged == call.residual # NaN /\ Abs(call.residual) <= NewtonTol

\* C9: the Newton solve of nondimShearParams, started from lam2bar_sq = 0,
\* terminates with the residual within the tolerance, within a bounded
\* number of iterations, for every xi in [0.01, 100] and gamma in [0, 5].
C9_NewtonConverges ==
  (/\ call.op = "nondimShearParams"
   /\ call.xi >= Num(1, 100) /\ call.xi <= 100 * FP
   /\ call.gamma >= 0 /\ call.gamma <= 5 * FP) =>
    /\ call.returned
    /\ call.iters <= MaxNewtonIters
    /\ Converged

\* C10: the Newton loop of nondimShearParams has a cap on its iterations and
\* reports a numerical failure when it is left without the residual within
\* the tolerance; the call returns for every (xi, gamma).
C10_CapAndFailureSignal ==
  call.op = "nondimShearParams" =>
    /\ call.returned
    /\ ~Converged => call.failure

SelfTestOps == {"testStiffenerAreaRatio", "testCriticalLocalAxialLoad"}

\* C11: the design variables are mutated only by setDesignVars: every other
\* routine (forward, sensitivity, accessor, self-test) leaves all design
\* variables at their pre-call values on return, and a self-test holds them at
\* these values at every point of its execution.
C11_OnlySetMutatesDVs ==
  [][call'.op # "setDesignVars" =>
       /\ DesignVariables(obj') = DesignVariables(obj)
       /\ call'.op \in SelfTestOps =>
            \A k \in DOMAIN call'.during : call'.during[k] = DesignVariables(obj)]_vars

\* the trained model of the data d, read from d itself
TrainedOn(d) ==
  [n_train |-> d.n_train, n_param |-> d.n_param, ks |-> d.ks, Xtrain |-> d.Xtrain,
   alpha |-> d.alpha]

\* C12: a trained model owns a copy of its data and is immutable once
\* constructed: its arrays are not the caller's and hold all n_train * n_param
\* training inputs and n_train coefficients handed to the constructor, also
\* after the caller has overwritten its arrays and after a prediction, and
\* predictMeanTestData and predictMeanTestDataSens (with kernel and
\* kernelSens) give what they give on the data handed to the constructor.
C12_ModelOwnsItsData ==
  "data" \in DOMAIN call =>
    LET d  == call.data
        gp == Members(call.this, call.mem)
    IN /\ {call.this.Xtrain, call.this.alpha} \cap {"Xtrain", "alpha"} = {}
       /\ gp.n_train = d.n_train /\ gp.n_param = d.n_param
       /\ \A ii \in 0 .. d.n_train * d.n_param - 1 : gp.Xtrain[ii] = d.Xtrain[ii]
       /\ \A jj \in 0 .. d.n_train - 1 : gp.alpha[jj] = d.alpha[jj]
       /\ call.op = "predictMeanTestDataSens" =>
            /\ call.mean = predictMeanTestData(TrainedOn(d), call.Xtest)
            /\ call.ret = call.mean
            /\ call.post = predictMeanTestDataSens(TrainedOn(d), call.Ysens, call.Xtest,
                                                   call.pre).Xtestsens

\* C12, its case: a prediction of a model whose caller has overwritten the
\* arrays it was constructed from
C12_PredictionAfterOverwrite ==
  /\ call.op = "predictMeanTestDataSens"
  /\ "data" \in DOMAIN call
  /\ call.mem["Xtrain"] # call.data.Xtrain
  /\ call.mem["alpha"] # call.data.alpha
  /\ call.mean # 0

\* how often the resource r is released in the sequence log
Releases(log, r) == Cardinality({k \in DOMAIN log : log[k] = r})

\* C13: destroying the constitutive object releases each resource it owns
\* exactly once: the state of the base class once, each attached trained
\* model (axial, shear, crippling) once, an absent model not at all, and
\* nothing twice.
C13_ReleasedExactlyOnce ==
  call.op = "~TACSGPBladeStiffenedShellConstitutive" =>
    /\ Releases(call.released, "base") = 1
    /\ \A n \in {"axialGP", "shearGP", "cripplingGP"} :
         Releases(call.released, n) = (IF n \in call.attached THEN 1 ELSE 0)

\* the routines whose intermediate buffers C14 is about
RequestScopedOps ==
  {"computeFailureValues", "evalFailureStrainSens", "addFailureDVSens"}
    \cup CriticalLoadOps \cup CriticalLoadSensOps

\* C14: all intermediate buffers are request-scoped: after a call to
\* computeFailureValues, evalFailureStrainSens, addFailureDVSens or a
\* critical-load forward or sensitivity routine, on the surrogate or the
\* closed-form path, the number of heap buffers allocated inside the call and
\* still not released is zero.
C14_NoLiveBuffers ==
  call.op \in RequestScopedOps => call.live = 0

\* ------------------------------------------------------------------------
\* Exactness of the sensitivities. A slot is compared with the upstream
\* scalar times the central difference of the forward routine in the input
\* the slot belongs to, as the self-tests of the source do; the arithmetic
\* carries three decimal places, which bounds the agreement.
\* ------------------------------------------------------------------------

\* the input each slot is the sensitivity of
InputOfSlot ==
  [D11sens |-> "D11", D22sens |-> "D22", D12sens |-> "D12", D66sens |-> "D66",
   asens |-> "a", bsens |-> "b", A66sens |-> "A66", A11sens |-> "A11", hsens |-> "h",
   deltasens |-> "delta", rho_0sens |-> "rho_0", xisens |-> "xi", gammasens |-> "gamma",
   zetasens |-> "zeta", genPoiss_sens |-> "genPoiss",
   sthickSens |-> "stiffenerThick", sheightSens |-> "stiffenerHeight",
   spitchSens |-> "stiffenerPitch", pthickSens |-> "panelThick",
   sheightsens |-> "stiffenerHeight", spitchsens |-> "stiffenerPitch"]

\* the object and the arguments with the input of the slot s moved by d
Moved(o, x, s, d) ==
  LET n == InputOfSlot[s]
  IN IF n \in DOMAIN x THEN [o |-> o, x |-> [x EXCEPT ![n] = @ + d]]
     ELSE [o |-> [o EXCEPT ![n] = @ + d], x |-> x]

\* the forward routine of a sensitivity routine of the nondimensional
\* parameters
NondimForward(op, o, x) ==
  CASE op = "computeAffineAspectRatioSens" -> computeAffineAspectRatio(x.D11, x.D22, x.a, x.b)
    [] op = "computeGeneralizedRigiditySens" -> computeGeneralizedRigidity(x.D11, x.D22, x.D12, x.D66)
    [] op = "computeGeneralizedPoissonsRatioSens" -> computeGeneralizedPoissonsRatio(x.D12, x.D66)
    [] op = "computeStiffenerAreaRatioSens" -> computeStiffenerAreaRatio(o)
    [] op = "computeStiffenerStiffnessRatioSens" -> computeStiffenerStiffnessRatio(o, x.D11)
    [] op = "computeTransverseShearParameterSens" ->
         computeTransverseShearParameter(x.A66, x.A11, x.b, x.h)

\* the step of the central differences and the agreement asked of them
FDStep == Num(1, 20)

FDTolerance == Num(1, 50)

FDRelTolerance == Num(1, 20)

\* the central difference of the forward value F in the input of the slot s
CentralDifference(F(_, _), o, x, s) ==
  Div(Sub(F(Moved(o, x, s, FDStep).o, Moved(o, x, s, FDStep).x),
          F(Moved(o, x, s, 0 - FDStep).o, Moved(o, x, s, 0 - FDStep).x)), 2 * FDStep)

\* adjoint agrees with the difference quotient fd: within FDTolerance plus
\* the fraction FDRelTolerance of fd (the truncation error of the quotient)
Agrees(adjoint, fd) ==
  /\ adjoint # NaN
  /\ fd # NaN
  /\ Abs(adjoint - fd) <= FDTolerance + Mul(FDRelTolerance, Abs(fd))

\* the slots agree with up times the central differences of F
AgreesWithDifferences(slots, up, F(_, _), o, x) ==
  \A s \in DOMAIN slots : Agrees(slots[s], Mul(up, CentralDifference(F, o, x, s)))

ExactNondimSensOps == NondimSensOps \ {"computeStiffenerStiffnessRatioSens"}

\* C15: for the affine aspect ratio, the generalized rigidity, the generalized
\* Poisson ratio, the stiffener area ratio and the transverse shear parameter,
\* the sensitivity routine called with the upstream scalar s on zeroed slots
\* leaves in each slot s times the partial derivative of the forward formula
\* with respect to the input of the slot.
C15_NondimSensIsDerivative ==
  (call.op \in ExactNondimSensOps /\ call.pre = Slots(DOMAIN call.pre, 0)) =>
    LET F(o, x) == NondimForward(call.op, o, x)
    IN AgreesWithDifferences(call.post, call.up, F, obj, call.x)

\* C15, its case: the aspect-ratio routine has been called on zeroed slots
\* and has left s * rho0 / a in the slot of a and a value of the opposite sign
\* in the slot of D11
C15_AspectRatioSlots ==
  /\ call.op = "computeAffineAspectRatioSens"
  /\ call.pre = Slots(DOMAIN call.pre, 0)
  /\ call.post.asens = Div(Mul(call.up, call.ret), call.x.a)
  /\ call.post.asens * call.post.D11sens < 0

\* C16: computeStiffenerStiffnessRatioSens is the derivative of
\* computeStiffenerStiffnessRatio, gamma = E1s * Is / (D11 * stiffenerThick):
\* with the upstream scalar s on zeroed slots it leaves s * dgamma/dD11,
\* s * dgamma/dstiffenerThick (the explicit 1/stiffenerThick and the
\* dependence through Is) and s * dgamma/dstiffenerHeight in their slots, and
\* zero in the slot of the stiffener pitch, on which gamma does not depend.
C16_StiffnessRatioSensIsDerivative ==
  (call.op = "computeStiffenerStiffnessRatioSens" /\ call.pre = Slots(DOMAIN call.pre, 0)) =>
    LET F(o, x) == NondimForward(call.op, o, x)
    IN /\ AgreesWithDifferences(call.post, call.up, F, obj, call.x)
       /\ call.post.spitchSens = 0

\* the critical load the sensitivity routine op returns, as a function of the
\* object and the arguments
CriticalLoad(op, o, x) == ForwardOf(op, o, x).ret

\* C17: on the closed-form path the global and the local axial sensitivity
\* routine add, for the upstream scalar s, s times the partial derivative of
\* the value they return (the re-negated KS aggregate of the negated per-mode
\* loads) with respect to each input, so that the sign of what is added
\* agrees with the derivative of the returned critical load.
C17_ClosedFormAxialSensIsDerivative ==
  (/\ call.op \in {"computeCriticalGlobalAxialLoadSens", "computeCriticalLocalAxialLoadSens"}
   /\ call.path = "CF"
   /\ call.pre = Slots(DOMAIN call.pre, 0)) =>
    LET F(o, x) == CriticalLoad(call.op, o, x)
    IN AgreesWithDifferences(call.post, call.up, F, obj, call.x)

\* The logarithms a critical-load routine hands to its trained model: the
\* slot of each, the argument of the logarithm and its index in Xtest. The
\* local routines put 0 for log(1 + gamma).
SurrogateInputs(op, x) ==
  {[slot |-> "xisens", arg |-> x.xi, idx |-> 0],
   [slot |-> "rho_0sens", arg |-> x.rho_0, idx |-> 1],
   [slot |-> "zetasens", arg |-> x.zeta, idx |-> 3]}
  \cup (IF op \in {"computeCriticalGlobalAxialLoadSens", "computeCriticalGlobalShearLoadSens"}
        THEN {[slot |-> "gammasens", arg |-> FP + x.gamma, idx |-> 2]}
        ELSE IF op = "computeStiffenerCripplingLoadSens"
        THEN {[slot |-> "genPoiss_sens", arg |-> x.genPoiss, idx |-> 2]}
        ELSE {})

Xtest(op, x) ==
  [j \in 0 .. 3 |->
     IF \E in \in SurrogateInputs(op, x) : in.idx = j
     THEN Log((CHOOSE in \in SurrogateInputs(op, x) : in.idx = j).arg)
     ELSE 0]

\* the step of the central differences of the predicted mean
GPStep == Num(1, 10)

\* the central difference of predictMeanTestData in the entry j of Xtest
MeanDifference(gp, X, j) ==
  Div(Sub(predictMeanTestData(gp, [X EXCEPT ![j] = @ + GPStep]),
          predictMeanTestData(gp, [X EXCEPT ![j] = @ - GPStep])), 2 * GPStep)

\* C18: on the surrogate path each critical-load sensitivity routine, with
\* the upstream scalar s and the output N = prefactor * exp(predictMean of
\* the logarithms of the inputs), adds s * dN/dx into every accumulator: the
\* gradient of the surrogate passed through predictMeanTestDataSens and
\* divided by the argument of each logarithm, and the power-rule partials of
\* the prefactor in D11, D22, the width-like variable and delta. The slot of
\* an input x of a logarithm is compared as d(log N)/d(log x), the slot times
\* x over s * N, with the central difference of the predicted mean; a slot of
\* the prefactor with s times the central difference of the returned load.
C18_SurrogateSensIsDerivative ==
  (/\ call.op \in CriticalLoadSensOps
   /\ call.path = "GP"
   /\ call.pre = Slots(DOMAIN call.pre, 0)) =>
    LET F(o, x) == CriticalLoad(call.op, o, x)
        logs == SurrogateInputs(call.op, call.x)
        pre  == {s \in DOMAIN call.post : \A in \in logs : in.slot # s}
        gp   == CriterionModel(obj, call.op).gp
    IN /\ \A s \in pre : Agrees(call.post[s], Mul(call.up, CentralDifference(F, obj, call.x, s)))
       /\ \A in \in logs :
            Agrees(Div(Mul(call.post[in.slot], in.arg), Mul(call.up, call.ret)),
                   MeanDifference(gp, Xtest(call.op, call.x), in.idx))

\* C18, its case: the crippling routine has taken the surrogate path on
\* zeroed accumulators and has left a gradient in the slot of xi, an input of
\* a logarithm, and in the slot of the stiffener height, an input of the
\* prefactor
C18_CripplingThroughSurrogate ==
  /\ call.op = "computeStiffenerCripplingLoadSens"
  /\ call.path = "GP"
  /\ call.pre = Slots(DOMAIN call.pre, 0)
  /\ call.post.xisens # 0
  /\ call.post.sheightsens # 0
  /\ call.x.xi # call.x.rho_0

\* the central differences of lam1bar and lam2bar, as nondimShearParams
\* leaves them, in xi and in gamma
ShearDifference(xi, gamma, bar, dxi, dgamma) ==
  Div(Sub(nondimShearParams(xi + dxi, gamma + dgamma)[bar],
          nondimShearParams(xi - dxi, gamma - dgamma)[bar]), 2 * FDStep)

\* C19: nondimShearParamsSens returns the derivatives of (lam1bar, lam2bar)
\* with respect to xi and gamma given by the implicit function theorem, the
\* right-hand sides of the 2x2 system being the negated partial derivatives of
\* the two constraints with respect to xi, respectively gamma: where the
\* Newton solve has converged, the four values returned are the derivatives
\* of the solution in xi and gamma.
C19_ShearSensIsDerivative ==
  (call.op = "nondimShearParamsSens" /\ call.returned /\ call.lam1bar # NaN) =>
    /\ Agrees(call.dl1xi, ShearDifference(call.xi, call.gamma, "lam1bar", FDStep, 0))
    /\ Agrees(call.dl2xi, ShearDifference(call.xi, call.gamma, "lam2bar", FDStep, 0))
    /\ Agrees(call.dl1gamma, ShearDifference(call.xi, call.gamma, "lam1bar", 0, FDStep))
    /\ Agrees(call.dl2gamma, ShearDifference(call.xi, call.gamma, "lam2bar", 0, FDStep))

\* the directions p the gradient of the predicted mean is projected on: the
\* four axes and two oblique directions
Directions ==
  {Arr4(FP, 0, 0, 0), Arr4(0, FP, 0, 0), Arr4(0, 0, FP, 0), Arr4(0, 0, 0, FP),
   Arr4(Num(1, 2), 0 - FP, Num(1, 4), FP), Arr4(0 - FP, Num(1, 2), FP, 0 - Num(1, 2))}

\* the dot product of two arrays of n_param entries
Dot(u, v, n_param) == Sum([j \in 0 .. n_param - 1 |-> Mul(u[j], v[j])], n_param)

\* the central difference of predictMeanTestData at X along p
DirectionalDifference(gp, X, p) ==
  Div(Sub(predictMeanTestData(gp, [j \in DOMAIN X |-> X[j] + Mul(GPStep, p[j])]),
          predictMeanTestData(gp, [j \in DOMAIN X |-> X[j] - Mul(GPStep, p[j])])), 2 * GPStep)

\* C20: predictMeanTestDataSens is the reverse-mode derivative of
\* predictMeanTestData, for any n_train >= 1: on a zero-initialised
\* x_test_sens, the dot product of the result with a direction p is Ysens
\* times the directional derivative of predictMeanTestData at x_test along p.
C20_SensIsReverseModeDerivative ==
  (/\ call.op = "predictMeanTestDataSens"
   /\ call.gp.n_train >= 1
   /\ call.pre = Zeros(call.gp.n_param)) =>
    \A p \in Directions :
      Agrees(Dot(call.post, p, call.gp.n_param),
             Mul(call.Ysens, DirectionalDifference(call.gp, call.Xtest, p)))

\* C20, its case: the sensitivity of a model trained on a single point has
\* been taken on a zero-initialised x_test_sens, with an upstream value other
\* than one, and no entry of the gradient is zero
C20_GradientOfSinglePointModel ==
  /\ call.op = "predictMeanTestDataSens"
  /\ call.gp.n_train = 1
  /\ call.pre = Zeros(call.gp.n_param)
  /\ call.Ysens # FP
  /\ \A j \in 0 .. call.gp.n_param - 1 : call.post[j] # 0

\* the central difference of the kernel in entry j of x_test
KernelDifference(ks, X, Xtrain, j) ==
  Div(Sub(kernel(ks, [X EXCEPT ![j] = @ + GPStep], Xtrain),
          kernel(ks, [X EXCEPT ![j] = @ - GPStep], Xtrain)),
      2 * GPStep)

\* A gradient agrees with the central differences when no entry is further
\* from its difference than FDTolerance plus FDRelTolerance of the largest
\* difference
GradientAgrees(added, fd) ==
  \A j \in DOMAIN fd :
    /\ added[j] # NaN
    /\ fd[j] # NaN
    /\ Abs(added[j] - fd[j]) <= FDTolerance + Mul(FDRelTolerance, SeqMax([k \in DOMAIN fd |-> Abs(fd[k])]))

\* C21: kernelSens adds to slot j of x_test_sens, for j = 0..3, ksens times
\* the derivative in x_test[j] of the value kernel computes
C21_KernelSensIsGradient ==
  call.op = "kernelSens" =>
    GradientAgrees([j \in 0 .. 3 |-> call.post[j] - call.pre[j]],
                   [j \in 0 .. 3 |->
                      Mul(call.ksens, KernelDifference(call.ks, call.Xtest, call.Xtrain, j))])

\* C21, its case: kernelSens has added a gradient without a zero entry, scaled
\* by an upstream value other than one, to an x_test_sens that was not zero
C21_GradientAdded ==
  /\ call.op = "kernelSens"
  /\ call.ksens # FP
  /\ \A j \in 0 .. 3 : call.pre[j] # 0 /\ call.post[j] # call.pre[j]

\* the loads of the buckling modes m1 = 1 .. NUM_CF_MODES of the closed-form
\* axial solutions, at index m1 - 1
ClosedFormAxialModes(op, o, x) ==
  LET global == op = "computeCriticalGlobalAxialLoad"
      dim_factor == IF global
                    THEN Div(Div(Div(Mul(PiSq, Sqrt(Mul(x.D11, x.D22))), x.b), x.b), FP + x.delta)
                    ELSE Div(Div(Mul(PiSq, Sqrt(Mul(x.D11, x.D22))), o.stiffenerPitch),
                             o.stiffenerPitch)
  IN [ii \in 0 .. NUM_CF_MODES - 1 |->
        0 - Mul(Mul(0 - FP, dim_factor),
                AxialModeFactor(ii + 1, x.rho_0, x.xi, IF global THEN x.gamma ELSE 0))]

\* the smallest entry
SeqMin(f) == 0 - SeqMax([ii \in DOMAIN f |-> 0 - f[ii]])

\* C22: without a surrogate the axial critical load, global or local, is not
\* greater than the smallest load of the modes 1 .. NUM_CF_MODES and is below
\* it by at most ln(NUM_CF_MODES) / ksWeight; for the square, unstiffened,
\* shear-free plate the smallest load is that of the first mode
C22_SmoothMinimumOverModes ==
  (/\ call.op \in {"computeCriticalGlobalAxialLoad", "computeCriticalLocalAxialLoad"}
   /\ call.path = "CF") =>
    LET modes == ClosedFormAxialModes(call.op, obj, call.x)
    IN /\ call.ret <= SeqMin(modes)
       /\ call.ret >= SeqMin(modes) - Div(Log(NUM_CF_MODES * FP), obj.ksWeight)
       /\ (call.x = SquarePlate /\ obj.stiffenerPitch = FP) => SeqMin(modes) = modes[0]

\* C22, its case: near the crossing of the first two modes the load returned
\* is below that of both by more than a hundredth
C22_BelowTwoCloseModes ==
  /\ call.op \in {"computeCriticalGlobalAxialLoad", "computeCriticalLocalAxialLoad"}
  /\ call.path = "CF"
  /\ call.x = NearModeCrossing
  /\ call.ret < SeqMin(ClosedFormAxialModes(call.op, obj, call.x)) - Num(1, 100)

\* C22, its case: the load of the square plate has been computed on the
\* closed-form path
C22_SquarePlateFirstMode ==
  /\ call.op \in {"computeCriticalGlobalAxialLoad", "computeCriticalLocalAxialLoad"}
  /\ call.path = "CF"
  /\ call.x = SquarePlate
  /\ obj.stiffenerPitch = FP
  /\ call.ret = ClosedFormAxialModes(call.op, obj, call.x)[0]

\* the slots of an accessor's output that belong to no active design variable
\* of the base class
NotOfBaseClass(o) ==
  (0 .. 5) \ {o.panelLengthLocalNum, o.stiffenerPitchLocalNum, o.panelThickLocalNum,
              o.stiffenerHeightLocalNum, o.stiffenerThickLocalNum}

\* the panel width is an active design variable and dvLen covers the design
\* variables
WidthServed(o, dvLen) == o.panelWidthNum >= 0 /\ dvLen >= o.numDesignVars

\* C23: with the panel width active and dvLen >= numDesignVars, getDesignVars
\* after setDesignVars(dvs) gives dvs[panelWidthLocalNum] at that slot,
\* getDesignVarNums gives panelWidthNum there and getDesignVarRange a lower
\* bound not above the upper bound; with dvLen < numDesignVars or the width
\* inactive, setDesignVars leaves the width and the other accessors leave the
\* slots outside the base class's as they were; each returns numDesignVars
C23_WidthRoundTrip ==
  /\ call.op \in {"setDesignVars", "getDesignVars", "getDesignVarNums", "getDesignVarRange"} =>
       call.ret = obj.numDesignVars
  /\ call.op = "setDesignVars" =>
       IF WidthServed(obj, call.dvLen)
       THEN obj.panelWidth = call.dvs[obj.panelWidthLocalNum]
       ELSE obj.panelWidth = call.width
  /\ call.op = "getDesignVars" =>
       IF WidthServed(obj, call.dvLen)
       THEN WidthServed(obj, call.set.dvLen) =>
              call.post[obj.panelWidthLocalNum] = call.set.dvs[obj.panelWidthLocalNum]
       ELSE \A ii \in NotOfBaseClass(obj) : call.post[ii] = call.pre[ii]
  /\ call.op = "getDesignVarNums" =>
       IF WidthServed(obj, call.dvLen)
       THEN call.post[obj.panelWidthLocalNum] = obj.panelWidthNum
       ELSE \A ii \in NotOfBaseClass(obj) : call.post[ii] = call.pre[ii]
  /\ call.op = "getDesignVarRange" =>
       IF WidthServed(obj, call.dvLen)
       THEN call.lb[obj.panelWidthLocalNum] <= call.ub[obj.panelWidthLocalNum]
       ELSE \A ii \in NotOfBaseClass(obj) :
              call.lb[ii] = call.pre[ii] /\ call.ub[ii] = call.pre[ii]

\* C23, its case: getDesignVars has read back a panel width that setDesignVars
\* had changed
C23_WidthReadBack ==
  /\ call.op = "getDesignVars"
  /\ WidthServed(obj, call.dvLen)
  /\ WidthServed(obj, call.set.dvLen)
  /\ call.post[obj.panelWidthLocalNum] = 2 * FP
  /\ call.post[obj.panelWidthLocalNum] # call.pre[obj.panelWidthLocalNum]

\* the object as it was when the self-test of the last call was entered
ObjectAtEntry ==
  [f \in DOMAIN obj |-> IF f \in DOMAIN call.entry THEN call.entry[f] ELSE obj[f]]

\* C24: no sensitivity routine called by addFailureDVSens or by a self-test
\* reads an accumulator that was never written, so that what these return
\* is what they return when the buffers operator new hands over hold zeros
C24_NoUnwrittenAccumulatorRead ==
  /\ call.op = "testStiffenerAreaRatio" =>
       call.ret = testStiffenerAreaRatio(ObjectAtEntry, call.epsilon, call.rnd.p_input,
                                         call.rnd.p_output, Zeros(6)).ret
  /\ call.op = "testCriticalLocalAxialLoad" =>
       call.ret = testCriticalLocalAxialLoad(ObjectAtEntry, call.epsilon, call.rnd.p_input,
                                             call.rnd.p_output, Zeros(6), Zeros(4)).ret
  /\ call.op = "addFailureDVSens" =>
       call.post = addFailureDVSens(obj, call.scale, call.e, call.ext, call.pre, Zeros(4)).dfdx

\* the entries of an array or of a record of scalars are numbers
Finite(f) == \A k \in DOMAIN f : f[k] # NaN

\* C25: with strictly positive geometric and material inputs no routine of
\* the failure evaluation divides by zero, whatever the strain, the zero
\* strain included: the failure values, the strain sensitivities, the
\* back-propagated loads and the design-variable sensitivities are numbers
C25_NoDivisionByZero ==
  /\ call.op = "computeFailureValues" => Finite(call.fails) /\ call.ret # NaN
  /\ call.op = "evalFailureStrainSens" =>
       Finite(call.fails) /\ Finite(call.weighted) /\ Finite(call.sens) /\ call.ret # NaN
  /\ call.op = "addFailureDVSens" =>
       Finite(call.fails) /\ Finite(call.weighted) /\ Finite(call.post)


\* C26: the forward and the reverse passes agree on the forward state.
\* evalFailureStrainSens returns the aggregate computeFailureValues returns
\* for the same strain, it and addFailureDVSens evaluate the five failure
\* ratios of computeFailureValues in the same order, and every sensitivity
\* routine of a nondimensional parameter, of a critical load and of the
\* surrogate prediction returns the value of its forward routine.
C26_PassesAgreeOnForwardState ==
  /\ call.op = "evalFailureStrainSens" =>
       /\ call.ret = computeFailureValues(obj, call.e, call.ext).ret
       /\ call.fails = computeFailureValues(obj, call.e, call.ext).fails
  /\ call.op = "addFailureDVSens" =>
       call.fails = computeFailureValues(obj, call.e, call.ext).fails
  /\ call.op \in NondimSensOps => call.ret = NondimForward(call.op, obj, call.x)
  /\ call.op \in CriticalLoadSensOps => call.ret = ForwardOf(call.op, obj, call.x).ret
  /\ call.op = "predictMeanTestDataSens" =>
       call.ret = predictMeanTestData(call.gp, call.Xtest)

\* C26, its case: evalFailureStrainSens has returned the aggregate of the
\* forward pass for a strain at which the global and the local buckling
\* ratios differ and the crippling ratio is not zero
C26_ReversePassOnDistinctRatios ==
  /\ call.op = "evalFailureStrainSens"
  /\ call.fails[2] # call.fails[3]
  /\ call.fails[4] # 0
  /\ call.ret = computeFailureValues(obj, call.e, call.ext).ret


\* the central difference of lam2Constraint in lam2sq
Lam2Difference(lam2sq, xi, gamma) ==
  Div(Sub(lam2Constraint(lam2sq + FDStep, xi, gamma),
          lam2Constraint(lam2sq - FDStep, xi, gamma)), 2 * FDStep)

\* the point lam2bar ^ 2 at which nondimShearParams left its Newton loop
SolvedLam2sq == Pow2(call.lam2bar)

\* C27: lam2ConstraintDeriv is the analytic derivative of lam2Constraint
\* with respect to lam2sq: at the point a converged Newton solve has
\* returned, the value of lam2ConstraintDeriv agrees with the central
\* difference of lam2Constraint.
C27_DerivOfLam2Constraint ==
  (call.op = "nondimShearParams" /\ Converged /\ call.lam2bar # NaN) =>
    Agrees(lam2ConstraintDeriv(SolvedLam2sq, call.xi, call.gamma),
           Lam2Difference(SolvedLam2sq, call.xi, call.gamma))


\* what evalFailureStrainSens has added to the slot ii of sens beyond the two
\* material failures and the global and local buckling of the panel
CripplingShare(ii) ==
  LET Ap == PanelParams(obj).Ap
      w  == call.weighted
      panel(k1, k12) == Mul(w.N1LocalSens, 0 - Ap[k1]) + Mul(w.N12LocalSens, Ap[k12])
                          + Mul(w.N1GlobalSens, 0 - Ap[k1]) + Mul(w.N12GlobalSens, Ap[k12])
      material == Mul(call.dKSdf[0], call.ext.panelFailSens[ii])
                    + Mul(call.dKSdf[1], call.ext.stiffenerFailSens[ii])
  IN call.sens[ii] - material
       - (CASE ii = 0 -> panel(0, 2) [] ii = 1 -> panel(1, 4) [] ii = 2 -> panel(2, 5)
            [] OTHER -> 0)

\* the sensitivity of the weighted crippling ratio to the stiffener strain:
\* dKSdf[4] / N1CritCrippling times dN1 / d(stiffener strain) = -As[0 .. 2]
CripplingStiffenerStrainSens ==
  [i \in 0 .. 2 |-> Mul(call.weighted.N1stiffSens, 0 - StiffenerParams(obj).As[i])]

\* C28: in evalFailureStrainSens the strain sensitivity of the crippling ratio
\* goes back along the chain of the forward pass: the weighted sensitivity to
\* the stiffener stress is mapped to the stiffener strain and through the
\* transpose of the strain transform before it is added to the sensitivity to
\* the shell strain.
C28_CripplingThroughTransformTranspose ==
  call.op = "evalFailureStrainSens" =>
    \A ii \in 0 .. NUM_STRESSES - 1 :
      CripplingShare(ii) = transformStrainSens(call.ext, CripplingStiffenerStrainSens)[ii]


\* the relative error a self-test may return when the differences and the
\* adjoint estimate one quantity, at the step 0.1 of the differences
SelfTestTolerance == Num(1, 10)

\* C29: a derivative self-test compares two estimates of one quantity: the
\* central difference and the adjoint carry the same upstream scalar, so that
\* on a zeroed buffer the relative error returned is small whatever upstream
\* scalar and direction were drawn.
C29_SelfTestComparesSameQuantity ==
  (call.op \in SelfTestOps /\ call.input_sens = Zeros(6)) =>
    /\ call.ret # NaN
    /\ call.ret <= SelfTestTolerance


\* C30: surrogate inference never accesses memory outside its buffers for a
\* model of n_train >= 1 points and n_param >= 1 parameters: kernel and
\* kernelSens touch only the entries 0 .. n_param - 1 of x_test, of the
\* training point and of x_test_sens, and the critical-load routines only the
\* entries 0 .. n_param - 1 of the input vector they allocate.
C30_InferenceStaysInsideBuffers ==
  (call.op = "surrogateInference" /\ call.n_train >= 1 /\ call.n_param >= 1) =>
    /\ \A buf \in DOMAIN call.access :
         call.access[buf].touched \subseteq 0 .. call.access[buf].size - 1
    /\ \A buf \in {"Xtest", "Xtestsens"} :
         call.access[buf].touched \subseteq 0 .. call.n_param - 1
    /\ call.outcome = "returns"

=========
